---- MODULE Spec2Model ----
(***************************************************************************)
(* Region selection / audio extraction store (zustand store + region       *)
(* handlers), and the chunked real-time inference pipeline, of the         *)
(* annotation-analysis repository.                                         *)
(*                                                                         *)
(* Times of the region store are integers in ticks of 0.5 ms, so that the  *)
(* half of the 0.065 s minimum duration (0.0325 s) is an integer; raw      *)
(* region bounds are drawn on the millisecond grid (even ticks).           *)
(***************************************************************************)
EXTENDS Integers, Sequences, FiniteSets, TLC

(***************************************************************************)
(* Bounds of the model.                                                    *)
(***************************************************************************)
MaxMounts == 1         \* times the main view is set up in one behaviour
MaxRegions == 2        \* regions ever created in one behaviour
MaxExtractions == 2    \* extractions ever started in one behaviour
MaxRuns == 1           \* startProcessing invocations in one behaviour
MaxChunks == 4          \* chunk lengths a recording spans when chunkAudio is run alone
MaxIterations == 12     \* iterations of chunkAudio's loop followed when it is run step by step
MaxCreations == 9      \* regions created when the colour manager is run alone

(***************************************************************************)
(* Program constants.                                                      *)
(***************************************************************************)
MIN_REGION_DURATION == 130       \* 0.065 s
PaletteSize == 8                 \* REGION_COLORS.length
AudioDuration == 40000           \* audioElement.duration of the 20 s recording

ChunkDuration == 5000            \* DEFAULT_CHUNKING_CONFIG.chunkDuration (ms)
OverlapDuration == 0             \* DEFAULT_CHUNKING_CONFIG.overlapDuration
PaddingDuration == 3000          \* DEFAULT_CHUNKING_CONFIG.paddingDuration (ms)
MinChunkDuration == 100          \* chunkAudio: chunks under 0.1 s are dropped
MarkerDuration == 1              \* click marker length, 0.001 s

NullId == 0                      \* null region / undefined blob and URL
Undefined == -1                  \* undefined start / end

\* Raw bounds <<start, end>> a drag or resize can deliver (ticks).
RawBounds ==
  { <<4000, 4060>>,      \* [2.0, 2.03] s : shorter than the minimum
    <<10000, 16000>> }   \* [5, 8] s : long enough

\* Raw bounds at the end of the 20 s recording, and the long region.
EdgeBounds ==
  { <<39980, 40000>>,    \* [19.99, 20.0] s : short, at the very end
    <<10000, 16000>> }   \* [5, 8] s : long enough

VARIABLES
  audioElement,        \* store.audioElement is set
  regionsPlugin,       \* store.regionsPlugin is set
  isInitialized,       \* initializationState.isInitialized
  eventListenersSetup, \* hooks.ts module flag
  croppedContainer,    \* store.croppedContainer is set
  croppedWaveSurfer,   \* [live, media]: the cropped view and its media source
  regions,             \* Region objects of the plugin: id -> [start, end, color]
  nextRegionId,        \* id of the next region the plugin creates
  selectedRegion,      \* store.selectedRegion
  extractions,         \* every extractAudioRegion call: its arguments, status,
                       \* and how often the blob URL made from it was revoked
  colorIndex,          \* RegionColorManager.colorIndex
  error,               \* initializationState.error
  mounts,              \* how often SetupMain has run
  playing,             \* the cropped view's player is playing
  gestures,            \* the raw bounds the user's drags and resizes deliver
  lastOp               \* the store operation or event of the last step, the
                       \* region it was about and the raw bounds it carried

storeVars == << audioElement, regionsPlugin, isInitialized, eventListenersSetup,
                croppedContainer, croppedWaveSurfer, regions, nextRegionId,
                selectedRegion, extractions, colorIndex, error, mounts, playing,
                gestures, lastOp >>

VARIABLES
  totalDuration,          \* audioBuffer.duration of the recording (ms)
  processingState,        \* RealtimePredictionManager: useState value
  accumulatedSelections,  \* RealtimePredictionManager: ref
  shouldCancel,           \* RealtimePredictionManager: ref
  markers,                \* last list handed to onSelectionsUpdate
  runs                    \* the startProcessing invocations, in start order

pipeVars == << totalDuration, processingState, accumulatedSelections,
               shouldCancel, markers, runs >>

VARIABLES
  input,                  \* arguments drawn for a function under study
  output                  \* << >> until applied, then << its result >>

fnVars == << input, output >>

vars == << storeVars, pipeVars, fnVars >>

----------------------------------------------------------------------------
(***************************************************************************)
(* audioUtils.ts                                                           *)
(***************************************************************************)

\* A variant of validateTimeRange without the check against the duration.
validateTimeRange_NoUpper(startTime, endTime, audioDuration) ==
  IF startTime < 0 THEN "Start time cannot be negative"
  ELSE IF startTime >= endTime THEN "Start time must be less than end time"
  ELSE ""

\* validateTimeRange: "" when valid, else the error text.
validateTimeRange(startTime, endTime, audioDuration) ==
  IF startTime < 0 THEN "Start time cannot be negative"
  ELSE IF endTime > audioDuration THEN "End time cannot exceed audio duration"
  ELSE IF startTime >= endTime THEN "Start time must be less than end time"
  ELSE ""

\* Floor of a time in ticks (0.5 ms) times a sample rate in Hz: the sample
\* index Math.floor(time * sampleRate).
SampleAt(ticks, sr) == (ticks * sr) \div 2000

\* A variant of SampleCount that rounds the end of the range up.
SampleCount_CeilEnd(startTicks, endTicks, total, sr) ==
  LET startSample == SampleAt(startTicks, sr)
      endSample == -SampleAt(-endTicks, sr)
      actualStartSample == IF startSample > 0 THEN startSample ELSE 0
      actualEndSample == IF endSample < total THEN endSample ELSE total
  IN  actualEndSample - actualStartSample

\* extractAudioRegion: the number of samples per channel it copies from a
\* buffer of `total` samples (0 or less: it throws).
SampleCount(startTicks, endTicks, total, sr) ==
  LET startSample == SampleAt(startTicks, sr)
      endSample == SampleAt(endTicks, sr)
      actualStartSample == IF startSample > 0 THEN startSample ELSE 0
      actualEndSample == IF endSample < total THEN endSample ELSE total
  IN  actualEndSample - actualStartSample

\* Number -> integer of DataView.setInt16 / setUint16: the fraction n/d is
\* truncated toward zero.
Trunc(n, d) == IF n >= 0 THEN n \div d ELSE -((-n) \div d)

\* Sample values are counted in quarters: 4 is 1.0, -5 is -1.25.
SampleUnit == 4

\* A variant of pcmSample that scales both signs by 0x7FFF.
pcmSample_Symmetric(v) ==
  LET sample == IF v < -SampleUnit THEN -SampleUnit
                ELSE IF v > SampleUnit THEN SampleUnit ELSE v
  IN  Trunc(sample * 32767, SampleUnit)

\* audioBufferToWav: the 16-bit value view.setInt16 stores for sample v.
pcmSample(v) ==
  LET sample == IF v < -SampleUnit THEN -SampleUnit
                ELSE IF v > SampleUnit THEN SampleUnit ELSE v
  IN  IF sample < 0 THEN Trunc(sample * 32768, SampleUnit)
                    ELSE Trunc(sample * 32767, SampleUnit)

\* view.setInt16(offset, value, true): the two bytes written, low byte first.
Int16Bytes(value) ==
  LET u == value % 65536
  IN  << u % 256, u \div 256 >>

\* audioBufferToWav: the header fields and the interleaved data bytes.
RECURSIVE WavData(_, _, _)
WavData(buffer, i, channel) ==
  IF i > buffer.length THEN << >>
  ELSE IF channel > buffer.numberOfChannels THEN WavData(buffer, i + 1, 1)
  ELSE Int16Bytes(pcmSample(buffer.channels[channel][i]))
       \o WavData(buffer, i, channel + 1)

audioBufferToWav(buffer) ==
  LET bytesPerSample == 2
      dataSize == buffer.length * buffer.numberOfChannels * bytesPerSample
      fileSize == 44 + dataSize
  IN  [ riffSize |-> fileSize - 8,
        fmtSize |-> 16,
        audioFormat |-> 1,
        numberOfChannels |-> buffer.numberOfChannels % 65536,
        sampleRate |-> buffer.sampleRate,
        byteRate |-> buffer.sampleRate * buffer.numberOfChannels * bytesPerSample,
        blockAlign |-> buffer.numberOfChannels * bytesPerSample,
        bitsPerSample |-> bytesPerSample * 8,
        dataSize |-> dataSize,
        data |-> WavData(buffer, 1, 1) ]

\* extractAudioRegion on the decoded buffer: the WAV blob, or the error thrown.
extractAudioRegion(audioBuffer, startTime, endTime) ==
  LET sampleRate == audioBuffer.sampleRate
      startSample == SampleAt(startTime, sampleRate)
      actualStartSample == IF startSample > 0 THEN startSample ELSE 0
      actualDuration == SampleCount(startTime, endTime, audioBuffer.length, sampleRate)
  IN  IF actualDuration <= 0
        THEN [ ok |-> FALSE,
               error |-> "Audio extraction failed: Invalid time range for audio extraction" ]
        ELSE [ ok |-> TRUE,
               blob |-> audioBufferToWav(
                 [ sampleRate |-> sampleRate,
                   numberOfChannels |-> audioBuffer.numberOfChannels,
                   length |-> actualDuration,
                   channels |-> [ channel \in 1..audioBuffer.numberOfChannels |->
                                    [ i \in 1..actualDuration |->
                                        audioBuffer.channels[channel][actualStartSample + i] ] ] ]) ]

\* The log entry of an extraction whose result no longer exists (it failed,
\* or its blob URL was revoked): what it was extracted from is dropped.
Forget(x) == [x EXCEPT !.region = 0, !.start = 0, !.end = 0]

\* A variant of revokeBlobURL that releases nothing.
revokeBlobURL_Nothing(xs, url) == xs

\* revokeBlobURL(url): one more URL.revokeObjectURL call on that URL.
revokeBlobURL(xs, url) ==
  [xs EXCEPT ![url] = Forget([@ EXCEPT !.revokes = @ + 1])]

----------------------------------------------------------------------------
(***************************************************************************)
(* hooks.ts: minimum duration policy and colour manager                    *)
(***************************************************************************)

\* A variant that widens around the midpoint without the clamp at time 0.
validateAndAdjustRegion_NoClamp(region) ==
  LET duration == region.end - region.start
      midPoint == (region.start + region.end) \div 2
      halfDuration == MIN_REGION_DURATION \div 2
  IN  IF duration >= MIN_REGION_DURATION
        THEN [isValid |-> TRUE, start |-> region.start, end |-> region.end]
        ELSE [isValid |-> FALSE, start |-> midPoint - halfDuration,
              end |-> midPoint + halfDuration]

\* validateAndAdjustRegion followed by region.setOptions({start, end}):
\* the bounds of the Region object after the handler's adjustment step.
validateAndAdjustRegion(region) ==
  LET duration == region.end - region.start
      midPoint == (region.start + region.end) \div 2
      halfDuration == MIN_REGION_DURATION \div 2
      adjustedStart == midPoint - halfDuration
      adjustedEnd == midPoint + halfDuration
  IN  IF duration >= MIN_REGION_DURATION
        THEN [isValid |-> TRUE, start |-> region.start, end |-> region.end]
        ELSE IF adjustedStart < 0
          THEN [isValid |-> FALSE, start |-> 0, end |-> MIN_REGION_DURATION]
          ELSE [isValid |-> FALSE, start |-> adjustedStart, end |-> adjustedEnd]

\* A variant of getNextColor that counts on past the end of the palette.
getNextColor_NoWrap(idx) == idx + 1

\* RegionColorManager.getNextColor: the index after handing out one colour.
getNextColor(idx) == (idx + 1) % PaletteSize

----------------------------------------------------------------------------
(***************************************************************************)
(* store.ts                                                                *)
(***************************************************************************)

DEFAULT_SELECTED_REGION ==
  [ region |-> NullId, start |-> Undefined, end |-> Undefined,
    extractedAudioBlob |-> NullId, extractedAudioUrl |-> NullId,
    isExtracting |-> FALSE, extractionError |-> "",
    isPlayingRegion |-> FALSE ]

NoCropped == [live |-> FALSE, media |-> NullId]

\* A variant of SelectionOf: the extracted asset of the previous selection is
\* carried over into the new selection record.
SelectionOf_KeepsUrl(r, regs) ==
  [ region |-> r, start |-> regs[r].start, end |-> regs[r].end,
    extractedAudioBlob |-> selectedRegion.extractedAudioBlob,
    extractedAudioUrl |-> selectedRegion.extractedAudioUrl,
    isExtracting |-> FALSE, extractionError |-> "",
    isPlayingRegion |-> FALSE ]

\* The record selectRegion writes for a non-null region.
SelectionOf(r, regs) ==
  [ region |-> r, start |-> regs[r].start, end |-> regs[r].end,
    extractedAudioBlob |-> NullId, extractedAudioUrl |-> NullId,
    isExtracting |-> FALSE, extractionError |-> "",
    isPlayingRegion |-> FALSE ]

\* extractRegionAudio up to its await: sel is store.selectedRegion when it is
\* called, xs the extractions so far; yields the pair written.
ExtractStart(r, regs, sel, xs) ==
  IF ~audioElement THEN << sel, xs >>
  ELSE LET msg == validateTimeRange(regs[r].start, regs[r].end, AudioDuration)
       IN  IF msg # ""
             THEN << [sel EXCEPT !.extractionError = msg, !.isExtracting = FALSE], xs >>
             ELSE << [sel EXCEPT !.isExtracting = TRUE, !.extractionError = ""],
                     Append(xs, [ region |-> r, start |-> regs[r].start,
                                  end |-> regs[r].end, status |-> "pending",
                                  revokes |-> 0 ]) >>

\* A variant of selectRegion that leaves initializationState.error alone.
selectRegion_KeepsError(r, regs) ==
  LET cur == selectedRegion
      xs1 == IF cur.extractedAudioUrl # NullId
               THEN revokeBlobURL(extractions, cur.extractedAudioUrl)
               ELSE extractions
      res == IF r # NullId
               THEN ExtractStart(r, regs, SelectionOf(r, regs), xs1)
               ELSE << DEFAULT_SELECTED_REGION, xs1 >>
  IN  /\ selectedRegion' = res[1]
      /\ extractions' = res[2]
      /\ UNCHANGED error

\* selectRegion(region) with the Region objects regs; r = NullId selects null.
selectRegion(r, regs) ==
  LET cur == selectedRegion
      xs1 == IF cur.extractedAudioUrl # NullId
               THEN revokeBlobURL(extractions, cur.extractedAudioUrl)
               ELSE extractions
      res == IF r # NullId
               THEN ExtractStart(r, regs, SelectionOf(r, regs), xs1)
               ELSE << DEFAULT_SELECTED_REGION, xs1 >>
  IN  /\ selectedRegion' = res[1]
      /\ extractions' = res[2]
      /\ error' = ""

\* initializeCropped(container) when store.selectedRegion = sel: the cropped
\* container flag, the cropped view and initializationState.error it leaves.
\* An existing view is destroyed and a new one built on the extracted URL if
\* there is one, else on the original audio element (media = NullId).
initializeCropped(sel, err) ==
  IF sel.extractedAudioUrl = NullId /\ ~audioElement
    THEN [cc |-> croppedContainer, cw |-> croppedWaveSurfer, err |-> err]
    ELSE [cc |-> TRUE, cw |-> [live |-> TRUE, media |-> sel.extractedAudioUrl],
          err |-> ""]

----------------------------------------------------------------------------
(***************************************************************************)
(* Initial state: the store as created, module flags of hooks.ts as loaded *)
(***************************************************************************)
StoreCreated ==
  /\ audioElement = FALSE
  /\ regionsPlugin = FALSE
  /\ isInitialized = FALSE
  /\ eventListenersSetup = FALSE
  /\ croppedContainer = FALSE
  /\ croppedWaveSurfer = NoCropped
  /\ regions = << >>
  /\ nextRegionId = 1
  /\ selectedRegion = DEFAULT_SELECTED_REGION
  /\ extractions = << >>
  /\ colorIndex = 0
  /\ error = ""
  /\ mounts = 0
  /\ playing = FALSE
  /\ lastOp = [op |-> "init", region |-> NullId, raw |-> << >>]

InitStore == StoreCreated /\ gestures = RawBounds

CanExtract == Len(extractions) < MaxExtractions

\* waveSurferActions.initializeMainWithRegions (RegionWaveform effect, run
\* while the store is not initialized): initializeMain then
\* setupRegionEventListeners, which hands the next colour to drag selection.
SetupMain ==
  /\ ~isInitialized
  /\ mounts < MaxMounts
  /\ mounts' = mounts + 1
  /\ audioElement' = TRUE
  /\ regionsPlugin' = TRUE
  /\ isInitialized' = TRUE
  /\ error' = ""
  /\ IF eventListenersSetup
       THEN UNCHANGED << eventListenersSetup, colorIndex >>
       ELSE /\ eventListenersSetup' = TRUE
            /\ colorIndex' = getNextColor(colorIndex)
  /\ UNCHANGED << croppedContainer, croppedWaveSurfer, regions, nextRegionId,
                  selectedRegion, extractions >>

\* useWaveSurfer.setupCropped (effect run once the store is initialized).
SetupCropped ==
  /\ isInitialized
  /\ audioElement
  /\ LET ic == initializeCropped(selectedRegion, error)
     IN  /\ croppedContainer' = ic.cc
         /\ croppedWaveSurfer' = ic.cw
         /\ error' = ic.err
  /\ UNCHANGED << audioElement, regionsPlugin, isInitialized, eventListenersSetup,
                  regions, nextRegionId, selectedRegion, extractions, colorIndex, mounts >>

\* region-created event for a region drawn with raw bounds [s, e].  The
\* "Region expanded to minimum duration" notice written by setError is
\* overwritten by the selectRegion call that ends the handler (error: null).
handleRegionCreated(s, e) ==
  /\ eventListenersSetup /\ regionsPlugin
  /\ nextRegionId <= MaxRegions
  /\ CanExtract
  /\ LET id == nextRegionId
         adj == validateAndAdjustRegion([start |-> s, end |-> e])
         reg == [start |-> adj.start, end |-> adj.end, color |-> colorIndex]
         regs == [i \in DOMAIN regions \cup {id} |->
                    IF i = id THEN reg ELSE regions[i]]
     IN  /\ regions' = regs
         /\ nextRegionId' = id + 1
         /\ colorIndex' = getNextColor(colorIndex)
         /\ selectRegion(id, regs)
  /\ UNCHANGED << audioElement, regionsPlugin, isInitialized, eventListenersSetup,
                  croppedContainer, croppedWaveSurfer, mounts >>

\* The region-created event delivered once more for the existing region r:
\* handleRegionCreated runs on the same Region object, whose bounds are the
\* adjusted ones.  The handler does not look at what it did before.
RedeliverRegionCreated(r) ==
  /\ eventListenersSetup /\ regionsPlugin
  /\ r \in DOMAIN regions
  /\ CanExtract
  /\ LET adj == validateAndAdjustRegion([start |-> regions[r].start,
                                         end |-> regions[r].end])
         regs == [regions EXCEPT ![r] = [start |-> adj.start, end |-> adj.end,
                                         color |-> colorIndex]]
     IN  /\ regions' = regs
         /\ colorIndex' = getNextColor(colorIndex)
         /\ selectRegion(r, regs)
  /\ UNCHANGED << audioElement, regionsPlugin, isInitialized, eventListenersSetup,
                  croppedContainer, croppedWaveSurfer, nextRegionId, mounts >>

\* A variant of handleRegionUpdated that selects the updated region whether
\* or not it is the selected one.
handleRegionUpdated_Always(r, s, e) ==
  /\ eventListenersSetup /\ regionsPlugin
  /\ r \in DOMAIN regions
  /\ CanExtract
  /\ LET adj == validateAndAdjustRegion([start |-> s, end |-> e])
         regs == [regions EXCEPT ![r].start = adj.start, ![r].end = adj.end]
     IN  /\ regions' = regs
         /\ selectRegion(r, regs)
  /\ UNCHANGED << audioElement, regionsPlugin, isInitialized, eventListenersSetup,
                  croppedContainer, croppedWaveSurfer, nextRegionId, colorIndex, mounts >>

\* region-updated event: region r was dragged or resized to raw bounds [s, e].
handleRegionUpdated(r, s, e) ==
  /\ eventListenersSetup /\ regionsPlugin
  /\ r \in DOMAIN regions
  /\ CanExtract
  /\ LET adj == validateAndAdjustRegion([start |-> s, end |-> e])
         regs == [regions EXCEPT ![r].start = adj.start, ![r].end = adj.end]
     IN  /\ regions' = regs
         /\ IF selectedRegion.region # NullId /\ selectedRegion.region = r
              THEN selectRegion(r, regs)
              ELSE UNCHANGED << selectedRegion, extractions, error >>
  /\ UNCHANGED << audioElement, regionsPlugin, isInitialized, eventListenersSetup,
                  croppedContainer, croppedWaveSurfer, nextRegionId, colorIndex, mounts >>

\* A variant of handleRegionClicked: without the already-selected check.
handleRegionClicked_NoSkip(r) ==
  /\ eventListenersSetup /\ regionsPlugin
  /\ r \in DOMAIN regions
  /\ CanExtract
  /\ selectRegion(r, regions)
  /\ UNCHANGED << audioElement, regionsPlugin, isInitialized, eventListenersSetup,
                  croppedContainer, croppedWaveSurfer, regions, nextRegionId,
                  colorIndex, mounts >>

\* region-clicked event on region r.
handleRegionClicked(r) ==
  /\ eventListenersSetup /\ regionsPlugin
  /\ r \in DOMAIN regions
  /\ CanExtract
  /\ IF selectedRegion.region # NullId /\ selectedRegion.region = r
       THEN UNCHANGED << selectedRegion, extractions, error >>
       ELSE selectRegion(r, regions)
  /\ UNCHANGED << audioElement, regionsPlugin, isInitialized, eventListenersSetup,
                  croppedContainer, croppedWaveSurfer, regions, nextRegionId,
                  colorIndex, mounts >>

\* A direct call of store.selectRegion (useWaveSurferActions().selectRegion,
\* useWaveform().updateSelectedRegion) with an existing region or null.
SelectRegionCall(r) ==
  /\ r = NullId \/ r \in DOMAIN regions
  /\ r # NullId => CanExtract
  /\ selectRegion(r, regions)
  /\ UNCHANGED << audioElement, regionsPlugin, isInitialized, eventListenersSetup,
                  croppedContainer, croppedWaveSurfer, regions, nextRegionId,
                  colorIndex, mounts >>

\* A variant of removeRegion that leaves the selection alone.
removeRegion_KeepsSelection(r) ==
  /\ r \in DOMAIN regions
  /\ regions' = [i \in DOMAIN regions \ {r} |-> regions[i]]
  /\ UNCHANGED << selectedRegion, extractions, error >>
  /\ UNCHANGED << audioElement, regionsPlugin, isInitialized, eventListenersSetup,
                  croppedContainer, croppedWaveSurfer, nextRegionId, colorIndex, mounts >>

\* store.removeRegion(region).
removeRegion(r) ==
  /\ r \in DOMAIN regions
  /\ regions' = [i \in DOMAIN regions \ {r} |-> regions[i]]
  /\ IF selectedRegion.region = r
       THEN selectRegion(NullId, regions)
       ELSE UNCHANGED << selectedRegion, extractions, error >>
  /\ UNCHANGED << audioElement, regionsPlugin, isInitialized, eventListenersSetup,
                  croppedContainer, croppedWaveSurfer, nextRegionId, colorIndex, mounts >>

\* store.clearRegions().
clearRegions ==
  /\ regions' = IF regionsPlugin THEN << >> ELSE regions
  /\ selectRegion(NullId, regions)
  /\ UNCHANGED << audioElement, regionsPlugin, isInitialized, eventListenersSetup,
                  croppedContainer, croppedWaveSurfer, nextRegionId, colorIndex, mounts >>

\* waveSurferActions.clearAll() = clearRegionsWithColorReset().
clearAll ==
  /\ regions' = IF regionsPlugin THEN << >> ELSE regions
  /\ selectRegion(NullId, regions)
  /\ colorIndex' = IF regionsPlugin THEN getNextColor(0) ELSE 0
  /\ UNCHANGED << audioElement, regionsPlugin, isInitialized, eventListenersSetup,
                  croppedContainer, croppedWaveSurfer, nextRegionId, mounts >>

\* store.clearExtractedAudio().
clearExtractedAudio ==
  /\ extractions' = IF selectedRegion.extractedAudioUrl # NullId
                      THEN revokeBlobURL(extractions, selectedRegion.extractedAudioUrl)
                      ELSE extractions
  /\ selectedRegion' = [selectedRegion EXCEPT !.extractedAudioBlob = NullId,
                                              !.extractedAudioUrl = NullId,
                                              !.isExtracting = FALSE,
                                              !.extractionError = ""]
  /\ UNCHANGED << audioElement, regionsPlugin, isInitialized, eventListenersSetup,
                  croppedContainer, croppedWaveSurfer, regions, nextRegionId,
                  colorIndex, error, mounts >>

\* What the three handlers below leave alone.
PlayerOnly ==
  UNCHANGED << audioElement, regionsPlugin, isInitialized, eventListenersSetup,
               croppedContainer, croppedWaveSurfer, regions, nextRegionId,
               extractions, colorIndex, mounts >>

\* store.playExtractedRegion(): nothing without an extracted asset or a
\* cropped view; a pause when isPlayingRegion is set; else play(), which
\* resolves (ok) or rejects.  The player's play and pause events, emitted
\* when its state changes, write isPlayingRegion.
playExtractedRegion(ok) ==
  /\ IF selectedRegion.extractedAudioUrl = NullId \/ ~croppedWaveSurfer.live
       THEN UNCHANGED << selectedRegion, playing, error >>
       ELSE IF selectedRegion.isPlayingRegion
         THEN /\ playing' = FALSE
              /\ selectedRegion' = IF playing
                                     THEN [selectedRegion EXCEPT !.isPlayingRegion = FALSE]
                                     ELSE selectedRegion
              /\ UNCHANGED error
         ELSE IF ok
           THEN /\ playing' = TRUE
                /\ selectedRegion' = IF playing
                                       THEN selectedRegion
                                       ELSE [selectedRegion EXCEPT !.isPlayingRegion = TRUE]
                /\ UNCHANGED error
           ELSE /\ error' = "Failed to play region"
                /\ UNCHANGED << selectedRegion, playing >>
  /\ PlayerOnly

\* store.pauseExtractedRegion(): pauses the cropped view if there is one.
pauseExtractedRegion ==
  /\ IF croppedWaveSurfer.live /\ playing
       THEN /\ playing' = FALSE
            /\ selectedRegion' = [selectedRegion EXCEPT !.isPlayingRegion = FALSE]
       ELSE UNCHANGED << selectedRegion, playing >>
  /\ UNCHANGED error
  /\ PlayerOnly

\* The cropped view's player reaches the end of its media: the finish event.
PlayerFinished ==
  /\ croppedWaveSurfer.live /\ playing
  /\ playing' = FALSE
  /\ selectedRegion' = [selectedRegion EXCEPT !.isPlayingRegion = FALSE]
  /\ UNCHANGED error
  /\ PlayerOnly

\* The state store.destroy() writes, shared by destroy and reset.
DestroyStore ==
  /\ extractions' = IF selectedRegion.extractedAudioUrl # NullId
                      THEN revokeBlobURL(extractions, selectedRegion.extractedAudioUrl)
                      ELSE extractions
  /\ eventListenersSetup' = FALSE
  /\ audioElement' = FALSE
  /\ regionsPlugin' = FALSE
  /\ isInitialized' = FALSE
  /\ croppedContainer' = FALSE
  /\ croppedWaveSurfer' = NoCropped
  /\ regions' = << >>
  /\ selectedRegion' = DEFAULT_SELECTED_REGION
  /\ error' = ""
  /\ UNCHANGED << nextRegionId, mounts >>

\* store.destroy() (unmount of the component using useWaveSurfer).
destroy ==
  /\ DestroyStore
  /\ UNCHANGED colorIndex

\* waveSurferActions.reset().
reset ==
  /\ DestroyStore
  /\ colorIndex' = 0

\* The await of extractRegionAudio number x ends: extractAudioRegion resolved
\* (ok) or rejected.
ExtractDone(x, ok) ==
  /\ x \in DOMAIN extractions
  /\ extractions[x].status = "pending"
  /\ IF ok
       THEN LET sel == [selectedRegion EXCEPT !.extractedAudioBlob = x,
                                              !.extractedAudioUrl = x,
                                              !.isExtracting = FALSE,
                                              !.extractionError = ""]
                ic == IF croppedContainer
                        THEN initializeCropped(sel, error)
                        ELSE [cc |-> croppedContainer, cw |-> croppedWaveSurfer,
                              err |-> error]
            IN  /\ extractions' = [extractions EXCEPT ![x].status = "ok"]
                /\ selectedRegion' = sel
                /\ croppedContainer' = ic.cc
                /\ croppedWaveSurfer' = ic.cw
                /\ error' = ic.err
       ELSE /\ extractions' = [extractions EXCEPT
                                ![x] = Forget([@ EXCEPT !.status = "failed"])]
            /\ selectedRegion' = [selectedRegion EXCEPT
                                    !.isExtracting = FALSE,
                                    !.extractionError = "Audio extraction failed"]
            /\ UNCHANGED << croppedContainer, croppedWaveSurfer, error >>
  /\ UNCHANGED << audioElement, regionsPlugin, isInitialized, eventListenersSetup,
                  regions, nextRegionId, colorIndex, mounts >>

----------------------------------------------------------------------------
(***************************************************************************)
(* audioChunking: chunkAudio.  Times of the pipeline are in milliseconds.  *)
(***************************************************************************)
Min(a, b) == IF a < b THEN a ELSE b

Max(a, b) == IF a > b THEN a ELSE b

\* Padding actually available on each side of the un-padded span.
ActualPadding(startTime, endTime, total) ==
  [ left |-> Min(PaddingDuration, startTime),
    right |-> Min(PaddingDuration, total - endTime) ]

\* A variant of the partition loop that also emits a rest shorter than 0.1 s.
RECURSIVE ChunkLoop_KeepsRest(_, _, _, _)
ChunkLoop_KeepsRest(currentTime, chunkIndex, total, chunks) ==
  IF currentTime < total
    THEN LET endTime == Min(currentTime + ChunkDuration, total)
             pad == ActualPadding(currentTime, endTime, total)
         IN  ChunkLoop_KeepsRest(currentTime + ChunkDuration - OverlapDuration,
                                 chunkIndex + 1, total,
                                 Append(chunks,
                                   [ index |-> chunkIndex,
                                     startTime |-> currentTime,
                                     endTime |-> endTime,
                                     duration |-> endTime - currentTime,
                                     actualLeftPadding |-> pad.left,
                                     actualRightPadding |-> pad.right ]))
    ELSE chunks

\* The partition loop of chunkAudio.
RECURSIVE ChunkLoop(_, _, _, _)
ChunkLoop(currentTime, chunkIndex, total, chunks) ==
  IF currentTime < total
    THEN LET endTime == Min(currentTime + ChunkDuration, total)
             actualDuration == endTime - currentTime
             pad == ActualPadding(currentTime, endTime, total)
         IN  IF actualDuration < MinChunkDuration
               THEN chunks
               ELSE ChunkLoop(currentTime + ChunkDuration - OverlapDuration,
                              chunkIndex + 1, total,
                              Append(chunks,
                                [ index |-> chunkIndex,
                                  startTime |-> currentTime,
                                  endTime |-> endTime,
                                  duration |-> actualDuration,
                                  actualLeftPadding |-> pad.left,
                                  actualRightPadding |-> pad.right ]))
    ELSE chunks

chunkAudio(total) == ChunkLoop(0, 0, total, << >>)

----------------------------------------------------------------------------
(***************************************************************************)
(* predictionApi: createSelectionsFromPredictions, processChunksInRealtime *)
(***************************************************************************)

\* A variant that keeps every prediction and maps it from the padded start.
RECURSIVE SelectionsFrom_KeepPadding(_, _, _)
SelectionsFrom_KeepPadding(predictions, k, chunk) ==
  IF k > Len(predictions) THEN << >>
  ELSE LET globalTimestamp == chunk.startTime + predictions[k]
       IN  << [ id |-> << chunk.index, k - 1 >>,
                beginTime |-> globalTimestamp,
                endTime |-> globalTimestamp + MarkerDuration ] >>
           \o SelectionsFrom_KeepPadding(predictions, k + 1, chunk)

\* predictions.forEach of createSelectionsFromPredictions, from position k.
RECURSIVE SelectionsFrom(_, _, _)
SelectionsFrom(predictions, k, chunk) ==
  IF k > Len(predictions) THEN << >>
  ELSE LET timestamp == predictions[k]
           chunkDurationInPaddedChunk == chunk.endTime - chunk.startTime
           validStartTime == chunk.actualLeftPadding
           validEndTime == chunk.actualLeftPadding + chunkDurationInPaddedChunk
           adjustedTimestamp == timestamp - chunk.actualLeftPadding
           globalTimestamp == chunk.startTime + adjustedTimestamp
           rest == SelectionsFrom(predictions, k + 1, chunk)
       IN  IF timestamp >= validStartTime /\ timestamp <= validEndTime
             THEN << [ id |-> << chunk.index, k - 1 >>,
                       beginTime |-> globalTimestamp,
                       endTime |-> globalTimestamp + MarkerDuration ] >> \o rest
             ELSE rest

createSelectionsFromPredictions(predictions, chunk) ==
  SelectionsFrom(predictions, 1, chunk)

\* The message of the error sendChunkForPrediction throws.
PredictionError(outcome) ==
  IF outcome = "timeout" THEN "Request timeout" ELSE "Prediction API error"

\* The response of the predictor to the chunk a run is waiting for: clicks at
\* chunk-local 1.0 s, 5.0 s and 16.5 s in even chunks, none in odd chunks.
Responses(run) ==
  IF run.i % 2 = 0 THEN { << 1000, 5000, 16500 >> } ELSE { << >> }

\* The elements of a set of chunk indices in increasing order.
SeqOfSet(S) ==
  LET RECURSIVE Order(_)
      Order(T) == IF T = {} THEN << >>
                  ELSE LET m == CHOOSE x \in T : \A y \in T : x <= y
                       IN  << m >> \o Order(T \ {m})
  IN  Order(S)

\* A variant that submits every chunk at once.
SubmitFirst_All(n) == 0 .. (n - 1)

\* Chunks processChunksInRealtime submits when it starts.
SubmitFirst(n) == IF n > 0 THEN {0} ELSE {}

\* Chunks it submits after chunk i succeeded.
SubmitAfterSuccess(i, n) == IF i + 1 < n THEN {i + 1} ELSE {}

\* A variant that skips a failed chunk and goes on with the next one.
SubmitAfterFailure_Continue(i, n) == IF i + 1 < n THEN {i + 1} ELSE {}

\* Chunks it submits after chunk i failed: none, the loop is left by throw.
SubmitAfterFailure(i, n) == {}

NoStatus ==
  [ totalChunks |-> 0, processedChunks |-> 0, currentChunk |-> -1,
    isComplete |-> FALSE, error |-> "" ]

IdleState ==
  [ isProcessing |-> FALSE, status |-> NoStatus, error |-> "",
    canCancel |-> FALSE ]

PipeIdle ==
  /\ totalDuration = 0
  /\ processingState = IdleState
  /\ accumulatedSelections = << >>
  /\ shouldCancel = FALSE
  /\ markers = << >>
  /\ runs = << >>

\* Recording lengths: 12.5 s (3 chunks), 20 s (4 chunks) and 25.05 s (5
\* chunks and a rest of 0.05 s).
Durations == { 12500, 20000, 25050 }

InitPipe ==
  /\ totalDuration \in Durations
  /\ processingState = IdleState
  /\ accumulatedSelections = << >>
  /\ shouldCancel = FALSE
  /\ markers = << >>
  /\ runs = << >>

\* The record kept of a run that has ended once a later run starts: what it
\* submitted and delivered is dropped.
Settled(run) ==
  IF run.phase \in {"chunking", "awaiting"} THEN run
  ELSE [ phase |-> "settled", chunks |-> << >>, i |-> 0, inFlight |-> {},
         sent |-> << >>, calls |-> << >>, applied |-> 0, cancelled |-> FALSE ]

\* startProcessing up to its first await (chunkAudio).
StartRun ==
  /\ ~processingState.isProcessing
  /\ accumulatedSelections' = << >>
  /\ shouldCancel' = FALSE
  /\ processingState' = [ isProcessing |-> TRUE, status |-> NoStatus,
                          error |-> "", canCancel |-> TRUE ]
  /\ runs' = Append([k \in DOMAIN runs |-> Settled(runs[k])],
                     [ phase |-> "chunking", chunks |-> << >>, i |-> 0,
                       inFlight |-> {}, sent |-> << >>, calls |-> << >>,
                       applied |-> 0, cancelled |-> FALSE ])
  /\ UNCHANGED << totalDuration, markers >>

\* startProcessing (the Start button), at most MaxRuns times.
startProcessing == Len(runs) < MaxRuns /\ StartRun

\* startProcessing where one more invocation is allowed, so that a run can
\* be started after an earlier one was cancelled.
restartProcessing == Len(runs) <= MaxRuns /\ StartRun

\* The end of startProcessing after a throw (chunking or pipeline), given the
\* processing state ps at that moment.
AfterThrow(ps, msg) ==
  IF ~shouldCancel
    THEN [ps EXCEPT !.isProcessing = FALSE, !.canCancel = FALSE, !.error = msg]
    ELSE ps

\* The end of startProcessing after processChunksInRealtime resolved.
AfterResolve(ps) ==
  IF ~shouldCancel
    THEN [ps EXCEPT !.isProcessing = FALSE, !.canCancel = FALSE, !.error = ""]
    ELSE ps

\* await chunkAudio ends for run k: decoded and chunked (ok) or rejected.
\* With chunks, processChunksInRealtime starts and submits its first chunk.
ChunkingDone(k, ok) ==
  /\ k \in DOMAIN runs
  /\ runs[k].phase = "chunking"
  /\ LET chunks == chunkAudio(totalDuration)
     IN  IF ok /\ Len(chunks) > 0
           THEN /\ runs' = [runs EXCEPT ![k].phase = "awaiting",
                                        ![k].chunks = chunks,
                                        ![k].inFlight = SubmitFirst(Len(chunks)),
                                        ![k].sent = SeqOfSet(SubmitFirst(Len(chunks)))]
                /\ UNCHANGED processingState
           ELSE /\ runs' = [runs EXCEPT ![k].phase = "chunkingFailed"]
                /\ processingState' =
                     AfterThrow(processingState,
                                IF ok THEN "No audio chunks were created"
                                      ELSE "Audio chunking failed")
  /\ UNCHANGED << totalDuration, accumulatedSelections, shouldCancel, markers >>

\* A variant of handleChunkProcessed that replaces the accumulated list by
\* the selections of the chunk.
handleChunkProcessed_Replace(newSelections, status) ==
  IF shouldCancel
    THEN [ acc |-> accumulatedSelections, shown |-> markers,
           ps |-> processingState, applied |-> 0 ]
    ELSE [ acc |-> newSelections,
           shown |-> IF Len(newSelections) > 0 THEN newSelections ELSE markers,
           ps |-> [processingState EXCEPT !.status = status,
                                          !.error = status.error],
           applied |-> 1 ]

\* handleChunkProcessed(chunkIndex, newSelections, status): the accumulated
\* selections, markers and processing state it leaves, and whether it got
\* past its cancellation check.
handleChunkProcessed(newSelections, status) ==
  IF shouldCancel
    THEN [ acc |-> accumulatedSelections, shown |-> markers,
           ps |-> processingState, applied |-> 0 ]
    ELSE LET acc == accumulatedSelections \o newSelections
         IN  [ acc |-> acc,
               shown |-> IF Len(newSelections) > 0 THEN acc ELSE markers,
               ps |-> [processingState EXCEPT !.status = status,
                                              !.error = status.error],
               applied |-> 1 ]

\* A variant of completedStatus that counts the chunks processed before this
\* one.
completedStatus_Before(i, n) ==
  [ totalChunks |-> n, processedChunks |-> i, currentChunk |-> i,
    isComplete |-> (i = n - 1), error |-> "" ]

\* processChunksInRealtime: the status passed with the result of chunk i of n.
completedStatus(i, n) ==
  [ totalChunks |-> n, processedChunks |-> i + 1, currentChunk |-> i,
    isComplete |-> (i = n - 1), error |-> "" ]

\* processChunksInRealtime: the status passed when chunk i of n failed.
errorStatus(i, n, msg) ==
  [ totalChunks |-> n, processedChunks |-> i, currentChunk |-> i,
    isComplete |-> FALSE, error |-> msg ]

\* The request for chunk runs[k].i ends: a response (outcome "ok" with the
\* predictions), a rejection or a timeout.  One iteration of the loop of
\* processChunksInRealtime from the end of its await to the next await, or
\* to the end of startProcessing.
PredictionDone(k, outcome, predictions) ==
  /\ k \in DOMAIN runs
  /\ runs[k].phase = "awaiting"
  /\ runs[k].i \in runs[k].inFlight
  /\ LET run == runs[k]
         i == run.i
         n == Len(run.chunks)
         chunk == run.chunks[i + 1]
     IN  IF outcome = "ok"
           THEN LET chunkSelections ==
                      createSelectionsFromPredictions(predictions, chunk)
                    status == completedStatus(i, n)
                    h == handleChunkProcessed(chunkSelections, status)
                    next == SubmitAfterSuccess(i, n)
                    last == (i + 1 >= n)
                IN  /\ runs' = [runs EXCEPT
                          ![k].calls = Append(@, [ chunkIndex |-> i,
                                                   selections |-> chunkSelections,
                                                   status |-> status ]),
                          ![k].applied = @ + h.applied,
                          ![k].inFlight = (@ \ {i}) \cup next,
                          ![k].sent = @ \o SeqOfSet(next),
                          ![k].i = IF last THEN i ELSE i + 1,
                          ![k].phase = IF last THEN "done" ELSE "awaiting"]
                    /\ accumulatedSelections' = h.acc
                    /\ markers' = h.shown
                    /\ processingState' = IF last THEN AfterResolve(h.ps) ELSE h.ps
           ELSE LET msg == PredictionError(outcome)
                    status == errorStatus(i, n, msg)
                    h == handleChunkProcessed(<< >>, status)
                    next == SubmitAfterFailure(i, n)
                    stop == (next = {})
                IN  /\ runs' = [runs EXCEPT
                          ![k].calls = Append(@, [ chunkIndex |-> i,
                                                   selections |-> << >>,
                                                   status |-> status ]),
                          ![k].applied = @ + h.applied,
                          ![k].inFlight = (@ \ {i}) \cup next,
                          ![k].sent = @ \o SeqOfSet(next),
                          ![k].i = IF stop THEN i ELSE i + 1,
                          ![k].phase = IF stop THEN "failed" ELSE "awaiting"]
                    /\ accumulatedSelections' = h.acc
                    /\ markers' = h.shown
                    /\ processingState' = IF stop THEN AfterThrow(h.ps, msg) ELSE h.ps
  /\ UNCHANGED << totalDuration, shouldCancel >>

\* cancelProcessing (the Cancel button).
cancelProcessing ==
  /\ processingState.isProcessing /\ processingState.canCancel
  /\ shouldCancel' = TRUE
  /\ processingState' = [processingState EXCEPT
                           !.isProcessing = FALSE, !.canCancel = FALSE,
                           !.error = "Processing cancelled by user"]
  /\ runs' = [k \in DOMAIN runs |->
                IF runs[k].phase \in {"chunking", "awaiting"}
                  THEN [runs[k] EXCEPT !.cancelled = TRUE]
                  ELSE runs[k]]
  /\ UNCHANGED << totalDuration, accumulatedSelections, markers >>

\* clearSelections (the Clear button, shown while not processing and some
\* selections are accumulated).
clearSelections ==
  /\ ~processingState.isProcessing
  /\ Len(accumulatedSelections) > 0
  /\ accumulatedSelections' = << >>
  /\ processingState' = IdleState
  /\ markers' = << >>
  /\ UNCHANGED << totalDuration, shouldCancel, runs >>

\* The handler or action that ran last and what it left of the cropped
\* view's player; nothing outside the store changes.
DidPlaying(o, r, b, p) ==
  /\ lastOp' = [op |-> o, region |-> r, raw |-> b]
  /\ playing' = p
  /\ UNCHANGED << gestures, pipeVars, fnVars >>

\* The handler or action that ran last, the player being left alone.
DidRaw(o, r, b) == DidPlaying(o, r, b, playing)

Did(o, r) == DidRaw(o, r, << >>)

NextStore ==
  \/ SetupMain /\ Did("setupMain", NullId)
  \/ SetupCropped /\ Did("setupCropped", NullId)
  \/ \E b \in gestures :
       handleRegionCreated(b[1], b[2]) /\ DidRaw("region-created", nextRegionId, b)
  \/ \E r \in DOMAIN regions, b \in gestures :
       handleRegionUpdated(r, b[1], b[2]) /\ DidRaw("region-updated", r, b)
  \/ \E r \in DOMAIN regions : handleRegionClicked(r) /\ Did("region-clicked", r)
  \/ \E r \in DOMAIN regions \cup {NullId} :
       SelectRegionCall(r) /\ Did("selectRegion", r)
  \/ \E r \in DOMAIN regions : removeRegion(r) /\ Did("removeRegion", r)
  \/ clearRegions /\ Did("clearRegions", NullId)
  \/ clearAll /\ Did("clearAll", NullId)
  \/ clearExtractedAudio /\ Did("clearExtractedAudio", NullId)
  \/ destroy /\ Did("destroy", NullId)
  \/ reset /\ Did("reset", NullId)
  \/ \E x \in DOMAIN extractions, ok \in BOOLEAN :
       ExtractDone(x, ok) /\ Did("extractDone", NullId)

FnIdle == input = << >> /\ output = << >>

Init == InitStore /\ PipeIdle /\ FnIdle

Spec == Init /\ [][NextStore]_vars

\* The store when the regions plugin may deliver region-created again for a
\* region it has already announced.
NextRedeliver ==
  \/ NextStore
  \/ \E r \in DOMAIN regions :
       RedeliverRegionCreated(r)
         /\ DidRaw("region-created", r, << regions[r].start, regions[r].end >>)

InitRedeliver == StoreCreated /\ gestures = RawBounds /\ PipeIdle /\ FnIdle

SpecRedeliver == InitRedeliver /\ [][NextRedeliver]_vars

\* Nothing but the player and the store fields its handlers write changes.
Played(o) ==
  /\ lastOp' = [op |-> o, region |-> NullId, raw |-> << >>]
  /\ UNCHANGED << gestures, pipeVars, fnVars >>

\* The store with region playback.  A cropped view that is built again or
\* destroyed is not playing; the other operations do not touch the player.
NextPlay ==
  \/ SetupMain /\ Did("setupMain", NullId)
  \/ SetupCropped /\ DidPlaying("setupCropped", NullId, << >>, FALSE)
  \/ \E b \in gestures :
       handleRegionCreated(b[1], b[2]) /\ DidRaw("region-created", nextRegionId, b)
  \/ \E r \in DOMAIN regions, b \in gestures :
       handleRegionUpdated(r, b[1], b[2]) /\ DidRaw("region-updated", r, b)
  \/ \E r \in DOMAIN regions : handleRegionClicked(r) /\ Did("region-clicked", r)
  \/ \E r \in DOMAIN regions \cup {NullId} :
       SelectRegionCall(r) /\ Did("selectRegion", r)
  \/ \E r \in DOMAIN regions : removeRegion(r) /\ Did("removeRegion", r)
  \/ clearRegions /\ Did("clearRegions", NullId)
  \/ clearAll /\ Did("clearAll", NullId)
  \/ clearExtractedAudio /\ Did("clearExtractedAudio", NullId)
  \/ destroy /\ DidPlaying("destroy", NullId, << >>, FALSE)
  \/ reset /\ DidPlaying("reset", NullId, << >>, FALSE)
  \/ \E x \in DOMAIN extractions, ok \in BOOLEAN :
       ExtractDone(x, ok)
         /\ DidPlaying("extractDone", NullId, << >>,
                       IF ok /\ croppedContainer THEN FALSE ELSE playing)
  \/ \E ok \in BOOLEAN : playExtractedRegion(ok) /\ Played("playExtractedRegion")
  \/ pauseExtractedRegion /\ Played("pauseExtractedRegion")
  \/ PlayerFinished /\ Played("finish")

\* One gesture is enough here: a drag or resize to [5, 8] s.
PlayBounds == { <<10000, 16000>> }

InitPlay == StoreCreated /\ gestures = PlayBounds /\ PipeIdle /\ FnIdle

SpecPlay == InitPlay /\ [][NextPlay]_vars

\* The store when the user also draws at the very end of the recording.
InitEdge == StoreCreated /\ gestures = EdgeBounds /\ PipeIdle /\ FnIdle

SpecEdge == InitEdge /\ [][NextStore]_vars

\* Nothing outside the pipeline changes.
PipeOnly == UNCHANGED << storeVars, fnVars >>

NextPipe ==
  \/ startProcessing /\ PipeOnly
  \/ \E k \in DOMAIN runs, ok \in BOOLEAN : ChunkingDone(k, ok) /\ PipeOnly
  \/ \E k \in DOMAIN runs : \E p \in Responses(runs[k]) :
       PredictionDone(k, "ok", p) /\ PipeOnly
  \/ \E k \in DOMAIN runs, o \in {"reject", "timeout"} :
       PredictionDone(k, o, << >>) /\ PipeOnly
  \/ cancelProcessing /\ PipeOnly
  \/ clearSelections /\ PipeOnly

StoreIdle == InitStore

InitPipeline == StoreIdle /\ InitPipe /\ FnIdle

SpecPipe == InitPipeline /\ [][NextPipe]_vars

\* The pipeline with a second run: recordings of 7.5 s (2 chunks) and 12.5 s
\* (3 chunks).
RestartDurations == { 7500, 12500 }

NextRestart ==
  \/ restartProcessing /\ PipeOnly
  \/ \E k \in DOMAIN runs, ok \in BOOLEAN : ChunkingDone(k, ok) /\ PipeOnly
  \/ \E k \in DOMAIN runs : \E p \in Responses(runs[k]) :
       PredictionDone(k, "ok", p) /\ PipeOnly
  \/ \E k \in DOMAIN runs, o \in {"reject", "timeout"} :
       PredictionDone(k, o, << >>) /\ PipeOnly
  \/ cancelProcessing /\ PipeOnly
  \/ clearSelections /\ PipeOnly

InitRestart ==
  /\ StoreIdle
  /\ totalDuration \in RestartDurations
  /\ processingState = IdleState
  /\ accumulatedSelections = << >>
  /\ shouldCancel = FALSE
  /\ markers = << >>
  /\ runs = << >>
  /\ FnIdle

SpecRestart == InitRestart /\ [][NextRestart]_vars

----------------------------------------------------------------------------
(***************************************************************************)
(* Specifications of single functions: the arguments are drawn by the      *)
(* initial state and one step applies the function.                        *)
(***************************************************************************)

\* Chunks handed to createSelectionsFromPredictions: un-padded start 0, 5 or
\* 10 s, length 2.5 or 5 s, left padding 0 or 3 s.
SelChunks ==
  { [ index |-> s \div ChunkDuration, startTime |-> s, endTime |-> s + d,
      duration |-> d, actualLeftPadding |-> p, actualRightPadding |-> p ] :
    s \in {0, 5000, 10000}, d \in {2500, 5000}, p \in {0, PaddingDuration} }

\* Chunk-local prediction times: every 0.5 s up to 17 s, and 1 ms either
\* side of the window edges.
PredTimes ==
  { 500 * t : t \in 0..34 } \cup
  { 2499, 2501, 2999, 3001, 4999, 5001, 5499, 5501, 7999, 8001 }

SelPredictions ==
  { << t >> : t \in PredTimes } \cup { << 1000, 5000, 16500 >>, << 4000, 4000 >> }

InitSel ==
  /\ StoreIdle /\ PipeIdle
  /\ input \in { [chunk |-> c, predictions |-> p] :
                   c \in SelChunks, p \in SelPredictions }
  /\ output = << >>

ApplySel ==
  /\ output = << >>
  /\ output' = << createSelectionsFromPredictions(input.predictions, input.chunk) >>
  /\ UNCHANGED << input, storeVars, pipeVars >>

SpecSel == InitSel /\ [][ApplySel]_vars

\* Sample values of the decoded sources, in quarters: inside, on and outside
\* the range [-1, 1].
Pattern == << 0, 1, -1, 4, -4, 5, -5, 3, -2, 2 >>

\* A decoded source of len samples per channel at sr Hz with nch channels.
SourceBuffer(sr, nch, len) ==
  [ sampleRate |-> sr, numberOfChannels |-> nch, length |-> len,
    channels |-> [ c \in 1..nch |->
                     [ i \in 1..len |->
                         Pattern[(((i - 1) + 3 * (c - 1)) % Len(Pattern)) + 1] ] ] ]

\* Sources of 2 s: mono at 4 Hz, stereo at 3 Hz and at 4 Hz.
SliceSources == { SourceBuffer(4, 1, 8), SourceBuffer(3, 2, 6), SourceBuffer(4, 2, 8) }

\* Range ends every 0.125 s from 0 to 2 s (ticks).
SliceTimes == { 250 * k : k \in 0..16 }

SliceInputs ==
  { [ source |-> b, startTime |-> a1, endTime |-> a2 ] :
      b \in SliceSources, a1 \in SliceTimes, a2 \in SliceTimes }

InitSlice ==
  /\ StoreIdle /\ PipeIdle
  /\ input \in { x \in SliceInputs : x.startTime < x.endTime }
  /\ output = << >>

ApplySlice ==
  /\ output = << >>
  /\ output' = << extractAudioRegion(input.source, input.startTime, input.endTime) >>
  /\ UNCHANGED << input, storeVars, pipeVars >>

SpecSlice == InitSlice /\ [][ApplySlice]_vars

\* store.ts calculateTimelineParams; durations and intervals in ms.
niceIntervals ==
  << 10, 20, 50, 100, 200, 500, 1000, 2000, 5000, 10000, 15000, 20000, 30000,
     60000, 120000, 300000, 600000, 1200000 >>

\* Math.ceil(n / d) for n >= 0, d > 0.
CeilDiv(n, d) == (n + d - 1) \div d

\* interval >= baseInterval with baseInterval = duration / targetLabelCount is
\* interval * targetLabelCount >= duration.
calculateTimelineParams(duration) ==
  LET targetLabelCount == Max(5, Min(15, CeilDiv(duration, 2000)))
      fits == { i \in DOMAIN niceIntervals :
                  niceIntervals[i] * targetLabelCount >= duration }
      first == CHOOSE i \in fits : \A k \in fits : i <= k
      inLadder == IF fits = {} THEN niceIntervals[1] ELSE niceIntervals[first]
      primaryLabelInterval ==
        IF duration > niceIntervals[Len(niceIntervals)] * targetLabelCount
          THEN CeilDiv(duration, targetLabelCount * 60000) * 60000
          ELSE inLadder
  IN  [ targetLabelCount |-> targetLabelCount,
        primaryLabelInterval |-> primaryLabelInterval,
        secondaryLabelInterval |-> primaryLabelInterval \div 2,
        timeInterval |-> Max(1, primaryLabelInterval \div 10) ]

\* Visible durations: the shortest region (0.065 s), every half second up to
\* 40 s, every minute up to an hour, and 5 to 6 hours in steps of 10 minutes.
TimelineDurations ==
  {65, 100} \cup { 500 * k : k \in 1..80 } \cup { 60000 * k : k \in 1..60 }
    \cup { 600000 * k : k \in 30..36 }

InitTimeline ==
  /\ StoreIdle /\ PipeIdle
  /\ \E d \in TimelineDurations : input = [duration |-> d]
  /\ output = << >>

ApplyTimeline ==
  /\ output = << >>
  /\ output' = << calculateTimelineParams(input.duration) >>
  /\ UNCHANGED << input, storeVars, pipeVars >>

SpecTimeline == InitTimeline /\ [][ApplyTimeline]_vars

\* extractAudioRegion with any pair of times, in either order, from 0.25 s
\* before the start of the 2 s sources to 0.75 s after their end.
RangeTimes == { 250 * k : k \in (-2)..22 }

RangeInputs ==
  { [source |-> src, startTime |-> a, endTime |-> b] :
      src \in SliceSources, a \in RangeTimes, b \in RangeTimes }

InitRange ==
  /\ StoreIdle /\ PipeIdle
  /\ input \in RangeInputs
  /\ output = << >>

ApplyRange ==
  /\ output = << >>
  /\ output' = << extractAudioRegion(input.source, input.startTime, input.endTime) >>
  /\ UNCHANGED << input, storeVars, pipeVars >>

SpecRange == InitRange /\ [][ApplyRange]_vars

\* chunkAudio on its own: recordings of every multiple of 25 ms up to
\* MaxChunks chunk lengths, and 1, 99 and 101 ms past each chunk boundary.
ChunkTotals ==
  { 25 * k : k \in 1..((MaxChunks * ChunkDuration) \div 25) }
    \cup { ChunkDuration * j + d : j \in 0..(MaxChunks - 1), d \in {1, 99, 101} }

InitChunk ==
  /\ StoreIdle /\ PipeIdle
  /\ \E t \in ChunkTotals : input = [totalDuration |-> t]
  /\ output = << >>

ApplyChunk ==
  /\ output = << >>
  /\ output' = << chunkAudio(input.totalDuration) >>
  /\ UNCHANGED << input, storeVars, pipeVars >>

SpecChunk == InitChunk /\ [][ApplyChunk]_vars

\* One run over a recording with a single click: the predictor reports the
\* click, at its time inside the padded chunk, for every chunk whose padded
\* audio contains it.
ClickResponse(chunk, click) ==
  LET paddedStart == chunk.startTime - chunk.actualLeftPadding
      paddedEnd == chunk.endTime + chunk.actualRightPadding
  IN  IF paddedStart <= click /\ click <= paddedEnd
        THEN << click - paddedStart >>
        ELSE << >>

\* allSelections of processChunksInRealtime after the chunks from k on, every
\* request succeeding.
RECURSIVE AllSelections(_, _, _)
AllSelections(chunks, k, click) ==
  IF k > Len(chunks) THEN << >>
  ELSE createSelectionsFromPredictions(ClickResponse(chunks[k], click), chunks[k])
         \o AllSelections(chunks, k + 1, click)

\* Recordings of 12.5 s and 20 s; a click at any multiple of 250 ms.
ClickTotals == { 12500, 20000 }

ClickInputs ==
  { [ totalDuration |-> t, click |-> 250 * j ] :
      t \in ClickTotals, j \in 0..80 }

InitClick ==
  /\ StoreIdle /\ PipeIdle
  /\ input \in { i \in ClickInputs : i.click <= i.totalDuration }
  /\ output = << >>

ApplyClick ==
  /\ output = << >>
  /\ output' = << AllSelections(chunkAudio(input.totalDuration), 1, input.click) >>
  /\ UNCHANGED << input, storeVars, pipeVars >>

SpecClick == InitClick /\ [][ApplyClick]_vars

\* The partition loop of chunkAudio run iteration by iteration, for any
\* configuration: output holds currentTime, chunkIndex, the start times of
\* the chunks pushed so far and whether the loop has been left.
LoopTotals == { 0, 50, 7500, 12500 }

LoopConfigs ==
  [ chunkDuration : { 2500, 5000 },
    overlapDuration : { 0, 1000, 2500, 5000, 7500 } ]

LoopInputs ==
  { [ totalDuration |-> t, chunkDuration |-> c.chunkDuration,
      overlapDuration |-> c.overlapDuration ] :
      t \in LoopTotals, c \in LoopConfigs }

InitLoop ==
  /\ StoreIdle /\ PipeIdle
  /\ input \in LoopInputs
  /\ output = << [ currentTime |-> 0, chunkIndex |-> 0, starts |-> << >>,
                   done |-> FALSE ] >>

\* One evaluation of the loop condition and, when it holds, of the body.
ChunkStep ==
  /\ ~output[1].done
  /\ output[1].chunkIndex < MaxIterations
  /\ LET loop == output[1]
         currentTime == loop.currentTime
         endTime == Min(currentTime + input.chunkDuration, input.totalDuration)
         actualDuration == endTime - currentTime
     IN  output' =
           IF currentTime < input.totalDuration /\ actualDuration >= MinChunkDuration
             THEN << [ currentTime |-> currentTime + input.chunkDuration
                                         - input.overlapDuration,
                       chunkIndex |-> loop.chunkIndex + 1,
                       starts |-> Append(loop.starts, currentTime),
                       done |-> FALSE ] >>
             ELSE << [loop EXCEPT !.done = TRUE] >>
  /\ UNCHANGED << input, storeVars, pipeVars >>

SpecLoop == InitLoop /\ [][ChunkStep]_vars /\ WF_vars(ChunkStep)

\* The colour manager on its own: input is the ids of the regions created so
\* far, output the manager's colorIndex and the palette index assigned to each.
\* colorIndex starts anywhere in the palette (setups hand out colours too).
RegionIds == { "a", "b" }

InitColor ==
  /\ StoreIdle /\ PipeIdle
  /\ input = << >>
  /\ \E k \in 0..(PaletteSize - 1) :
       output = << [colorIndex |-> k, colors |-> << >>] >>

\* handleRegionCreated for a region with the given id: it gets the colour at
\* colorIndex and the manager moves on.
ColorCreate(id) ==
  /\ Len(input) < MaxCreations
  /\ input' = Append(input, id)
  /\ output' = << [ colorIndex |-> getNextColor(output[1].colorIndex),
                    colors |-> Append(output[1].colors, output[1].colorIndex) ] >>
  /\ UNCHANGED << storeVars, pipeVars >>

NextColor == \E id \in RegionIds : ColorCreate(id)

SpecColor == InitColor /\ [][NextColor]_vars

\* Raw regions handed to the region handlers: start 0 .. 0.08 s or 2 s, length
\* 0 .. 0.1 s (even ticks: the millisecond grid).
AdjustInputs ==
  { [start |-> 2 * a, end |-> 2 * a + 2 * d] :
      a \in (0..80) \cup {2000}, d \in {0, 1, 10, 30, 64, 65, 66, 100} }

InitAdjust ==
  /\ StoreIdle /\ PipeIdle
  /\ input \in AdjustInputs
  /\ output = << >>

\* The adjustment step of handleRegionCreated and handleRegionUpdated: the
\* bounds of the Region object after region.setOptions.
ApplyAdjust ==
  /\ output = << >>
  /\ LET adj == validateAndAdjustRegion(input)
     IN  output' = << [start |-> adj.start, end |-> adj.end] >>
  /\ UNCHANGED << input, storeVars, pipeVars >>

SpecAdjust == InitAdjust /\ [][ApplyAdjust]_vars

----------------------------------------------------------------------------
(***************************************************************************)
(* Properties of the region store                                          *)
(***************************************************************************)

Held == selectedRegion.extractedAudioUrl

\* C1: a non-null extracted asset in the state is the one extracted for the
\* currently selected region and its current bounds (a result of a superseded
\* extraction is never applied).
C1_ExtractedAssetIsCurrent ==
  Held # NullId =>
    /\ extractions[Held].region = selectedRegion.region
    /\ extractions[Held].start = selectedRegion.start
    /\ extractions[Held].end = selectedRegion.end

\* C2: every blob URL created from an extraction is either still held in
\* selectedRegion.extractedAudioUrl or has been revoked.
C2_EveryUrlHeldOrRevoked ==
  \A x \in DOMAIN extractions :
    extractions[x].status = "ok" => (Held = x \/ extractions[x].revokes >= 1)

\* C3: no extracted-asset URL is passed to revokeBlobURL more than once.
C3_NoDoubleRelease ==
  \A x \in DOMAIN extractions : extractions[x].revokes <= 1

\* C3 witness: a URL was revoked (once) and a later extraction result is held.
C3_Witness ==
  \E x, y \in DOMAIN extractions :
    /\ x < y
    /\ extractions[x].revokes = 1
    /\ Held = y

\* C4: the media source of the live cropped view is the original audio
\* element or an extracted-asset URL that has not been revoked.
C4_NoUseAfterRelease ==
  (croppedWaveSurfer.live /\ croppedWaveSurfer.media # NullId) =>
    extractions[croppedWaveSurfer.media].revokes = 0

\* C5 as stated: selecting the already selected region is a no-op, for a
\* region-clicked event and for a direct call of store.selectRegion alike.
C5_SelectCurrentIsNoOp ==
  [][ ( /\ lastOp'.op \in {"region-clicked", "selectRegion"}
        /\ lastOp'.region # NullId
        /\ lastOp'.region = selectedRegion.region )
      => UNCHANGED << selectedRegion, extractions >> ]_vars

\* C5 amended: a region-clicked event for the already selected region starts
\* no extraction, revokes nothing and leaves selectedRegion unchanged.
C5_ClickCurrentIsNoOp ==
  [][ ( /\ lastOp'.op = "region-clicked"
        /\ lastOp'.region = selectedRegion.region )
      => UNCHANGED << selectedRegion, extractions, regions, croppedWaveSurfer,
                      error >> ]_vars

\* C5 witness: the selected region, holding its extracted asset, was clicked.
C5_Witness ==
  /\ lastOp.op = "region-clicked"
  /\ lastOp.region = selectedRegion.region
  /\ Held # NullId

\* Sample rates of the decoded recording the properties are evaluated for.
SampleRates == { 8000, 44100, 48000 }

\* One step of the end-to-end scenario with the adjusted bounds [s, e] (ticks)
\* expected for the raw region [2.0 s, 2.03 s]: its creation selects the
\* region with these bounds; an extraction of these bounds that succeeds is
\* held and is 0.065 s long to within one sample; clearing the regions
\* removes every region, selects none and revokes the asset held.
EndToEndStep(s, e) ==
  /\ (lastOp'.op = "region-created" /\ lastOp'.raw = << 4000, 4060 >>) =>
       /\ regions'[lastOp'.region].start = s
       /\ regions'[lastOp'.region].end = e
       /\ selectedRegion'.region = lastOp'.region
       /\ selectedRegion'.start = s /\ selectedRegion'.end = e
  /\ \A x \in DOMAIN extractions :
       ( /\ extractions[x].status = "pending" /\ extractions'[x].status = "ok"
         /\ extractions[x].end - extractions[x].start = MIN_REGION_DURATION ) =>
         /\ selectedRegion'.extractedAudioUrl = x
         /\ \A sr \in SampleRates :
              LET n == SampleCount(extractions[x].start, extractions[x].end,
                                   SampleAt(AudioDuration, sr), sr)
              IN  /\ 2000 * n > MIN_REGION_DURATION * sr - 2000
                  /\ 2000 * n < MIN_REGION_DURATION * sr + 2000
  /\ lastOp'.op \in {"clearRegions", "clearAll"} =>
       /\ regions' = << >>
       /\ selectedRegion' = DEFAULT_SELECTED_REGION
       /\ Held # NullId =>
            extractions'[Held].revokes = extractions[Held].revokes + 1

\* C11 as stated: on a 20 s recording, creating [2.0, 2.03] gives the adjusted
\* region [1.985, 2.05]; its extraction yields an asset of 0.065 s; clearing
\* the regions releases the asset and leaves no region selected.
C11_EndToEndAsStated == [][EndToEndStep(3970, 4100)]_vars

\* C11 amended: the adjusted region is [1.9825, 2.0475] (midpoint 2.015 s kept);
\* the rest of the scenario is as stated, the asset being 0.065 s long to
\* within one sample.
C11_EndToEnd == [][EndToEndStep(3965, 4095)]_vars

\* C11 witness: one region was created, its extraction succeeded, and
\* clearAll released the asset and left nothing selected.
C11_Witness ==
  /\ lastOp.op = "clearAll"
  /\ nextRegionId = 2
  /\ Len(extractions) = 1
  /\ extractions[1].status = "ok" /\ extractions[1].revokes = 1
  /\ regions = << >>
  /\ selectedRegion.region = NullId

\* Extraction x is the one running for the current selection: the last one
\* started, still pending, for the selected region and its current bounds.
CurrentExtraction(x) ==
  /\ x = Len(extractions)
  /\ extractions[x].status = "pending"
  /\ selectedRegion.region # NullId
  /\ extractions[x].region = selectedRegion.region
  /\ extractions[x].start = selectedRegion.start
  /\ extractions[x].end = selectedRegion.end

\* C14: when the extraction for the currently selected region fails, the
\* selection gets extractionError set, isExtracting false and no extracted
\* asset, while the selected region, its bounds, the main waveform and the
\* regions stay as they are.
C14_FailureContained ==
  [][ \A x \in DOMAIN extractions :
        (CurrentExtraction(x) /\ extractions'[x].status = "failed") =>
          /\ selectedRegion'.extractionError # ""
          /\ ~selectedRegion'.isExtracting
          /\ selectedRegion'.extractedAudioUrl = NullId
          /\ selectedRegion'.extractedAudioBlob = NullId
          /\ selectedRegion'.region = selectedRegion.region
          /\ selectedRegion'.start = selectedRegion.start
          /\ selectedRegion'.end = selectedRegion.end
          /\ UNCHANGED << regions, audioElement, regionsPlugin, isInitialized >>
    ]_vars

\* The step selects a region other than the current selection: a creation,
\* a click on another region, or a direct selectRegion call with one.
SelectsAnother ==
  /\ lastOp'.op \in {"region-created", "region-clicked", "selectRegion"}
  /\ lastOp'.region # NullId
  /\ lastOp'.region # selectedRegion.region

\* The step revokes the asset that was held and selects lastOp'.region with
\* its bounds and no asset.
ReleasesAndSelects ==
  /\ Held # NullId => extractions'[Held].revokes = extractions[Held].revokes + 1
  /\ selectedRegion'.region = lastOp'.region
  /\ selectedRegion'.start = regions'[lastOp'.region].start
  /\ selectedRegion'.end = regions'[lastOp'.region].end
  /\ selectedRegion'.extractedAudioUrl = NullId
  /\ selectedRegion'.extractedAudioBlob = NullId

\* After the step an extraction for the new selection has just been started.
NowExtracting ==
  /\ selectedRegion'.isExtracting
  /\ selectedRegion'.extractionError = ""
  /\ Len(extractions') = Len(extractions) + 1
  /\ extractions'[Len(extractions')] =
       [ region |-> selectedRegion'.region, start |-> selectedRegion'.start,
         end |-> selectedRegion'.end, status |-> "pending", revokes |-> 0 ]

\* C15: every selection of another region revokes the previous asset and
\* leaves the sub-state Extracting with an extraction started for it.
C15_NewSelectionExtracts ==
  [][ SelectsAnother => (ReleasesAndSelects /\ NowExtracting) ]_vars

\* What holds of every selection of another region: the previous asset is
\* revoked; the sub-state is then Extracting with an extraction started when
\* the region's bounds pass validateTimeRange, and otherwise failed with the
\* validation message, no extraction being started.
NewSelectionExtractsIfValid ==
  [][ SelectsAnother =>
        /\ ReleasesAndSelects
        /\ LET msg == validateTimeRange(selectedRegion'.start, selectedRegion'.end,
                                        AudioDuration)
           IN  IF msg = ""
                 THEN NowExtracting
                 ELSE /\ ~selectedRegion'.isExtracting
                      /\ selectedRegion'.extractionError = msg
                      /\ Len(extractions') = Len(extractions) ]_vars

\* The step is a region-updated event for the selected region.
ResizesSelected ==
  /\ lastOp'.op = "region-updated"
  /\ lastOp'.region # NullId
  /\ lastOp'.region = selectedRegion.region

\* The resized region has the bounds the minimum-duration policy gives for
\* the raw bounds of the event.
PolicyApplied ==
  LET adj == validateAndAdjustRegion([start |-> lastOp'.raw[1], end |-> lastOp'.raw[2]])
  IN  /\ regions'[lastOp'.region].start = adj.start
      /\ regions'[lastOp'.region].end = adj.end
      /\ adj.end - adj.start >= MIN_REGION_DURATION

\* C16: a region-updated event for the selected region re-applies the
\* minimum-duration policy, revokes the asset extracted for the previous
\* bounds, records the new bounds in selectedRegion and starts an extraction
\* for them.
C16_ResizeReExtracts ==
  [][ ResizesSelected => (PolicyApplied /\ ReleasesAndSelects /\ NowExtracting) ]_vars

\* What holds of every resize of the selected region: as C16, the extraction
\* being started only when the new bounds pass validateTimeRange.
ResizeReExtractsIfValid ==
  [][ ResizesSelected =>
        /\ PolicyApplied
        /\ ReleasesAndSelects
        /\ validateTimeRange(selectedRegion'.start, selectedRegion'.end,
                             AudioDuration) = "" => NowExtracting ]_vars

\* C17: after removeRegion(r) with r the current selection the region is
\* deleted, no region is selected, the asset that was held has been revoked
\* and is no longer in the state, and no extraction is started.
C17_RemoveSelected ==
  [][ ( /\ lastOp'.op = "removeRegion"
        /\ lastOp'.region = selectedRegion.region ) =>
        /\ lastOp'.region \notin DOMAIN regions'
        /\ \A i \in DOMAIN regions \ {lastOp'.region} :
             i \in DOMAIN regions' /\ regions'[i] = regions[i]
        /\ selectedRegion' = DEFAULT_SELECTED_REGION
        /\ Held # NullId =>
             extractions'[Held].revokes = extractions[Held].revokes + 1
        /\ Len(extractions') = Len(extractions)
        /\ \A x \in DOMAIN extractions :
             extractions'[x].status = extractions[x].status ]_vars

\* C17 witness: the only region created, selected and holding its asset, was
\* removed: nothing is selected and the asset has been revoked.
C17_Witness ==
  /\ lastOp.op = "removeRegion"
  /\ nextRegionId = 2
  /\ regions = << >>
  /\ selectedRegion = DEFAULT_SELECTED_REGION
  /\ Len(extractions) = 1
  /\ extractions[1].status = "ok" /\ extractions[1].revokes = 1

\* C18: clearAll removes every region, leaves no region selected with the
\* held asset released, and resets colour cycling: the next region created
\* after clearAll gets the first palette colour.
C18_ClearAllResetsColors ==
  [][ /\ lastOp'.op = "clearAll" =>
           /\ regions' = << >>
           /\ selectedRegion' = DEFAULT_SELECTED_REGION
           /\ Held # NullId =>
                extractions'[Held].revokes = extractions[Held].revokes + 1
      /\ (lastOp.op = "clearAll" /\ lastOp'.op = "region-created") =>
           regions'[lastOp'.region].color = 0 ]_vars

\* Extractions whose await has not ended: each of them writes the
\* extracted-asset slot of selectedRegion when it ends.
InFlight == { x \in DOMAIN extractions : extractions[x].status = "pending" }

\* C20: at most one extraction is in flight at a time: starting an extraction
\* while an earlier one is pending supersedes the earlier one, so never more
\* than one pending extraction can write the extracted-asset slot.
C20_OneExtractionInFlight == Cardinality(InFlight) <= 1

\* getAudioBuffer: the extractions that fetched and decoded the full-length
\* source.  Every extractAudioRegion call that resolved did so: getAudioBuffer
\* keeps no decoded buffer between calls and always fetches audioElement.src.
Decoded == { x \in DOMAIN extractions : extractions[x].status = "ok" }

\* C21: within a session (one mounted source) the full-length source is
\* fetched and decoded at most once; a second extraction reuses the decoded
\* buffer.
C21_DecodeOnce == mounts <= 1 => Cardinality(Decoded) <= 1

\* The step calls extractRegionAudio for lastOp'.region: a creation, a direct
\* selectRegion call, a click on a region that is not selected, or a resize
\* of the selected region, while the audio element exists.
ExtractCalled ==
  /\ lastOp'.region # NullId
  /\ audioElement
  /\ \/ lastOp'.op \in {"region-created", "selectRegion"}
     \/ lastOp'.op = "region-clicked" /\ lastOp'.region # selectedRegion.region
     \/ ResizesSelected

InvalidRange(reg) ==
  reg.start < 0 \/ reg.end > AudioDuration \/ reg.start >= reg.end

\* C22: when extractRegionAudio is called for a region whose time range is
\* invalid, no extraction is started or completed by the call, the sub-state
\* is not Extracting, extractionError holds the message when the call
\* returns, and the region is still the selection.
C22_ValidationPrecedesWork ==
  [][ (ExtractCalled /\ InvalidRange(regions'[lastOp'.region])) =>
        /\ Len(extractions') = Len(extractions)
        /\ \A x \in DOMAIN extractions :
             extractions'[x].status = extractions[x].status
        /\ ~selectedRegion'.isExtracting
        /\ selectedRegion'.extractionError # ""
        /\ selectedRegion'.region = lastOp'.region
        /\ selectedRegion'.extractedAudioUrl = NullId ]_vars

\* C22 witness: the selected region was resized to bounds that end after the
\* recording while an extraction for another range was pending, and the
\* selection carries the validation message.
C22_Witness ==
  /\ lastOp.op = "region-updated"
  /\ selectedRegion.region = lastOp.region
  /\ selectedRegion.end > AudioDuration
  /\ selectedRegion.extractionError = "End time cannot exceed audio duration"
  /\ ~selectedRegion.isExtracting
  /\ InFlight # {}


\* The step changes the asset the cropped view is to show: an extraction
\* delivered its asset, or the selection holding an asset was cleared or its
\* region removed.
AssetChanges ==
  /\ Held' # Held
  /\ \/ lastOp'.op = "extractDone"
     \/ /\ lastOp'.op \in {"removeRegion", "clearRegions", "clearAll", "selectRegion"}
        /\ selectedRegion'.region = NullId

\* C24: whenever the asset of the cropped view changes while a cropped view
\* exists, the view is destroyed and built again, so that the one live view
\* is on the current asset.
C24_ReinitOnAssetChange ==
  [][ (croppedWaveSurfer.live /\ AssetChanges) =>
        (croppedWaveSurfer'.live /\ croppedWaveSurfer'.media = Held') ]_vars

\* What holds: the cropped view is built again when an extraction delivers
\* its asset.
ReinitOnExtraction ==
  [][ (croppedWaveSurfer.live /\ lastOp'.op = "extractDone" /\ Held' # Held) =>
        (croppedWaveSurfer'.live /\ croppedWaveSurfer'.media = Held') ]_vars


\* C27: the side effects of a logical region event are applied once: a
\* setup of the region listeners while they are set up registers nothing and
\* hands out no colour, and a region-created event for a region that was
\* already announced leaves the region's colour and the colour counter alone.
C27_HandlersIdempotent ==
  [][ /\ (lastOp'.op = "setupMain" /\ eventListenersSetup) =>
           UNCHANGED << eventListenersSetup, colorIndex >>
      /\ (lastOp'.op = "region-created" /\ lastOp'.region \in DOMAIN regions) =>
           /\ colorIndex' = colorIndex
           /\ regions'[lastOp'.region].color = regions[lastOp'.region].color
    ]_vars


PlayerEvents == {"playExtractedRegion", "pauseExtractedRegion", "finish"}

SelectionChanges ==
  {"region-created", "region-updated", "region-clicked", "selectRegion",
   "removeRegion", "clearRegions", "clearAll", "destroy", "reset"}

\* C28: isPlayingRegion changes only with the player's play, pause and finish
\* events or is reset when the selection changes; after every step it says
\* whether the cropped view's player is playing; and playExtractedRegion and
\* pauseExtractedRegion change nothing without an extracted asset or
\* without a cropped view.
C28_PlaybackFollowsPlayer ==
  [][ /\ selectedRegion'.isPlayingRegion # selectedRegion.isPlayingRegion =>
           \/ lastOp'.op \in PlayerEvents
           \/ lastOp'.op \in SelectionChanges /\ ~selectedRegion'.isPlayingRegion
      /\ selectedRegion'.isPlayingRegion = playing'
      /\ ( /\ lastOp'.op \in {"playExtractedRegion", "pauseExtractedRegion"}
           /\ (Held = NullId \/ ~croppedWaveSurfer.live) ) =>
           UNCHANGED << selectedRegion, playing, error, croppedWaveSurfer >>
    ]_vars

\* What holds of the writers of isPlayingRegion and of playExtractedRegion.
PlaybackWriters ==
  [][ /\ selectedRegion'.isPlayingRegion # selectedRegion.isPlayingRegion =>
           \/ lastOp'.op \in PlayerEvents
           \/ lastOp'.op \in SelectionChanges /\ ~selectedRegion'.isPlayingRegion
      /\ ( /\ lastOp'.op = "playExtractedRegion"
           /\ (Held = NullId \/ ~croppedWaveSurfer.live) ) =>
           UNCHANGED << selectedRegion, playing, error, croppedWaveSurfer >>
    ]_vars


\* The step calls store.selectRegion with the region lastOp'.region: a
\* creation, a direct call, a click on a region that is not selected, or a
\* resize of the selected region.
SelectCalled ==
  /\ lastOp'.region # NullId
  /\ \/ lastOp'.op \in {"region-created", "selectRegion"}
     \/ lastOp'.op = "region-clicked" /\ lastOp'.region # selectedRegion.region
     \/ ResizesSelected

\* C30: right after selectRegion(region) for a region whose range is valid,
\* initializationState.error is null and selectedRegion.extractionError is
\* undefined, whatever errors the state held before.
C30_SelectionClearsErrors ==
  [][ (SelectCalled /\ ~InvalidRange(regions'[lastOp'.region])) =>
        /\ error' = ""
        /\ selectedRegion'.extractionError = ""
        /\ selectedRegion'.region = lastOp'.region ]_vars

\* C30 witness: the first extraction had failed; selectRegion was then
\* called with a region, a new extraction is running and no error is left.
C30_Witness ==
  /\ lastOp.op = "selectRegion" /\ lastOp.region # NullId
  /\ selectedRegion.region = lastOp.region
  /\ Len(extractions) = 2
  /\ extractions[1].status = "failed"
  /\ extractions[2].status = "pending"
  /\ selectedRegion.isExtracting
  /\ selectedRegion.extractionError = ""
  /\ error = ""

\* The last step was a region-created event whose drawn region was shorter
\* than MIN_REGION_DURATION, so that the handler expanded it.
ExpandedOnCreate ==
  /\ lastOp'.op = "region-created"
  /\ lastOp'.raw # << >>
  /\ lastOp'.raw[2] - lastOp'.raw[1] < MIN_REGION_DURATION

\* C31: when a region shorter than the minimum duration is created and
\* expanded, initializationState.error holds the "Region expanded to minimum
\* duration" notice once handleRegionCreated has returned.
C31_MinDurationNotice ==
  [][ ExpandedOnCreate =>
        error' = "Region expanded to minimum duration" ]_vars

\* The last step was a region-created event whose drawn region lies inside
\* the recording.
CreatedInsideRecording ==
  /\ lastOp'.op = "region-created"
  /\ lastOp'.raw # << >>
  /\ 0 <= lastOp'.raw[1] /\ lastOp'.raw[1] <= lastOp'.raw[2]
  /\ lastOp'.raw[2] <= AudioDuration

\* C32: a region drawn inside [0, D] still lies inside [0, D] after the
\* minimum-duration adjustment, and the extraction its creation triggers is
\* not rejected with "End time cannot exceed audio duration".
C32_AdjustedStayExtractable ==
  [][ CreatedInsideRecording =>
        /\ 0 <= regions'[lastOp'.region].start
        /\ regions'[lastOp'.region].end <= AudioDuration
        /\ selectedRegion'.extractionError
             # "End time cannot exceed audio duration" ]_vars

\* C36: whenever selectedRegion.region is null, under every interleaving
\* with pending extraction completions, extractedAudioUrl and
\* extractedAudioBlob are undefined, isExtracting is false, extractionError
\* is undefined and isPlayingRegion is false.
C36_NoRegionIsClean ==
  selectedRegion.region = NullId =>
    /\ selectedRegion.extractedAudioUrl = NullId
    /\ selectedRegion.extractedAudioBlob = NullId
    /\ ~selectedRegion.isExtracting
    /\ selectedRegion.extractionError = ""
    /\ ~selectedRegion.isPlayingRegion

\* An extraction started for the selected region with its current bounds is
\* pending.
CurrentPending ==
  \E x \in DOMAIN extractions :
    /\ extractions[x].status = "pending"
    /\ extractions[x].region = selectedRegion.region
    /\ extractions[x].start = selectedRegion.start
    /\ extractions[x].end = selectedRegion.end

\* C37: selectedRegion.isExtracting is true if and only if an extraction for
\* the currently selected region and its current bounds is pending, and it
\* is never true while an extracted asset is present.
C37_ExtractingFlagTruthful ==
  /\ selectedRegion.isExtracting <=>
       (selectedRegion.region # NullId /\ CurrentPending)
  /\ selectedRegion.isExtracting => Held = NullId

\* The last step was a region-updated event or a removeRegion call for a
\* region other than the one selected before it.
OnUnselectedRegion ==
  /\ lastOp'.op \in {"region-updated", "removeRegion"}
  /\ lastOp'.region # selectedRegion.region

\* C38: a region-updated event or a removeRegion call for a region that is
\* not the selected one leaves selectedRegion (region, bounds, extracted
\* asset, extraction status, playing flag) unchanged, starts no extraction
\* and revokes no asset.
C38_UnselectedEventsLeaveSelection ==
  [][ OnUnselectedRegion =>
        /\ selectedRegion' = selectedRegion
        /\ extractions' = extractions ]_vars

\* C38 witness: the selected region holds its extracted asset, and the other
\* region, drawn at the end of the recording, has just been resized.
C38_Witness ==
  /\ lastOp.op = "region-updated"
  /\ selectedRegion.region # NullId
  /\ lastOp.region # selectedRegion.region
  /\ Held # NullId
  /\ extractions[Held].region = selectedRegion.region

\* C38 also for removal: the selected region holds its asset and the other
\* region has just been removed.
C38_RemovedOther ==
  /\ lastOp.op = "removeRegion"
  /\ selectedRegion.region # NullId
  /\ lastOp.region # selectedRegion.region
  /\ lastOp.region \notin DOMAIN regions
  /\ Held # NullId

----------------------------------------------------------------------------
(***************************************************************************)
(* Properties of the inference pipeline                                    *)
(***************************************************************************)

\* Chunk indices 0 .. n-1 in order.
FirstIndices(n) == [j \in 1..n |-> j - 1]

\* C6: fail-fast.  In every run the callbacks are made in chunk order, only
\* the last one can carry an error, and a callback with an error ends the run:
\* when chunk k (1-based) is the first to reject or time out, exactly k
\* callbacks were made (k-1 successes, then one with status.error set and
\* isComplete false), exactly chunks 1..k were submitted and none is in flight.
\* A timeout and a rejection leave the same shape.
C6_FailFast ==
  \A r \in DOMAIN runs :
    LET run == runs[r]
        c == run.calls
    IN  /\ \A j \in 1..Len(c) : c[j].chunkIndex = j - 1
        /\ \A j \in 1..(Len(c) - 1) : c[j].status.error = ""
        /\ (\E j \in 1..Len(c) : c[j].status.error # "") => run.phase = "failed"
        /\ run.phase = "failed" =>
             /\ Len(c) = run.i + 1
             /\ c[Len(c)].status.error \in
                  { PredictionError("reject"), PredictionError("timeout") }
             /\ ~c[Len(c)].status.isComplete
             /\ c[Len(c)].selections = << >>
             /\ run.sent = FirstIndices(run.i + 1)
             /\ run.inFlight = {}

\* C6 witness: a run over 5 chunks whose third chunk timed out.
C6_Witness ==
  \E r \in DOMAIN runs :
    /\ Len(runs[r].chunks) = 5
    /\ runs[r].phase = "failed"
    /\ Len(runs[r].calls) = 3
    /\ runs[r].calls[3].status.error = PredictionError("timeout")

\* C7: strictly sequential.  At most one request of a run is in flight, it is
\* the request for the chunk after the last callback, chunks are submitted in
\* index order and callbacks are delivered in index order.
C7_StrictlySequential ==
  \A r \in DOMAIN runs :
    LET run == runs[r]
    IN  /\ Cardinality(run.inFlight) <= 1
        /\ run.inFlight \subseteq { Len(run.calls) }
        /\ run.sent = FirstIndices(Len(run.sent))
        /\ Len(run.sent) <= Len(run.calls) + 1
        /\ \A j \in 1..Len(run.calls) : run.calls[j].chunkIndex = j - 1

\* C7 witness: two callbacks delivered and the third chunk in flight.
C7_Witness ==
  \E r \in DOMAIN runs :
    /\ runs[r].phase = "awaiting"
    /\ Len(runs[r].calls) = 2
    /\ runs[r].inFlight = {2}

\* C8: once cancelProcessing was called during a run, no further chunk of
\* that run is sent to the predictor and no further chunk callback takes
\* effect (gets past the cancellation check of handleChunkProcessed).
C8_CancelStopsRun ==
  [][ \A r \in DOMAIN runs :
        runs[r].cancelled =>
          /\ runs'[r].sent = runs[r].sent
          /\ runs'[r].applied = runs[r].applied ]_vars

\* processedChunks of the callback before callback j of a run (0 before the
\* first).
ProcessedBefore(c, j) == IF j = 1 THEN 0 ELSE c[j - 1].status.processedChunks

\* C13: over the callbacks of one run processedChunks never decreases and
\* grows by exactly 1 with each success, processedChunks <= totalChunks,
\* isComplete is set only in the callback for the successful last chunk,
\* error and isComplete are never both set, and no callback follows one in
\* which isComplete or error is set.
C13_StatusMonotoneTerminal ==
  \A r \in DOMAIN runs :
    LET c == runs[r].calls
        n == Len(runs[r].chunks)
    IN  \A j \in 1..Len(c) :
          LET st == c[j].status
          IN  /\ st.processedChunks >= ProcessedBefore(c, j)
              /\ st.error = "" => st.processedChunks = ProcessedBefore(c, j) + 1
              /\ st.error # "" => st.processedChunks = ProcessedBefore(c, j)
              /\ st.processedChunks <= st.totalChunks
              /\ st.totalChunks = n
              /\ st.isComplete <=> (st.error = "" /\ c[j].chunkIndex = n - 1)
              /\ ~(st.isComplete /\ st.error # "")
              /\ (st.isComplete \/ st.error # "") => j = Len(c)

\* C13 witness: a run over 5 chunks completed: 5 callbacks, the last one with
\* isComplete and processedChunks = 5.
C13_Witness ==
  \E r \in DOMAIN runs :
    /\ runs[r].phase = "done"
    /\ Len(runs[r].calls) = 5
    /\ runs[r].calls[5].status.isComplete
    /\ runs[r].calls[5].status.processedChunks = 5


\* Run k received the result of a chunk in this step.
ChunkResult(k) ==
  /\ k \in DOMAIN runs /\ k \in DOMAIN runs'
  /\ Len(runs'[k].calls) = Len(runs[k].calls) + 1

LastCall(k) == runs'[k].calls[Len(runs'[k].calls)]

\* C23: each chunk result leaves the accumulated selections as they were or
\* with that chunk's selections appended, the results arriving in chunk
\* order; a failing chunk leaves the accumulated selections and the list
\* delivered to onSelectionsUpdate as they were, and the run ends failed.
C23_PartialResultsRetained ==
  [][ \A k \in DOMAIN runs :
        ChunkResult(k) =>
          /\ LastCall(k).chunkIndex = Len(runs[k].calls)
          /\ accumulatedSelections' \in
               { accumulatedSelections,
                 accumulatedSelections \o LastCall(k).selections }
          /\ (~shouldCancel) =>
               accumulatedSelections' =
                 accumulatedSelections \o LastCall(k).selections
          /\ Len(accumulatedSelections') > Len(accumulatedSelections) =>
               markers' = accumulatedSelections'
          /\ LastCall(k).status.error # "" =>
               /\ accumulatedSelections' = accumulatedSelections
               /\ markers' = markers
               /\ runs'[k].phase = "failed"
               /\ runs'[k].sent = runs[k].sent ]_vars

\* C23 witness: a run failed on its third chunk; the selection of the first
\* chunk is still accumulated and delivered.
C23_Witness ==
  \E k \in DOMAIN runs :
    /\ runs[k].phase = "failed"
    /\ Len(runs[k].calls) = 3
    /\ runs[k].calls[3].status.error # ""
    /\ Len(accumulatedSelections) > 0
    /\ accumulatedSelections = runs[k].calls[1].selections
    /\ markers = accumulatedSelections

\* Runs whose pipeline has a request in flight.
Submitting(rs) == { k \in DOMAIN rs : rs[k].inFlight # {} }

\* No callback of a run that was cancelled gets past the cancellation check
\* of handleChunkProcessed in this step.
CancelledRunsSilent ==
  \A k \in DOMAIN runs :
    (runs[k].cancelled /\ runs'[k].phase # "settled") =>
      runs'[k].applied = runs[k].applied

\* C33: after a run was cancelled and a new one started, no chunk callback
\* of the cancelled run is applied, and at most one pipeline run is
\* submitting requests at any time.
C33_RunsDoNotInterfere ==
  [][ /\ CancelledRunsSilent
      /\ Cardinality(Submitting(runs')) <= 1 ]_vars

----------------------------------------------------------------------------
(***************************************************************************)
(* Properties of single functions                                          *)
(***************************************************************************)

\* Reading a WAV blob back: the 16-bit value of sample i (from 0) of channel
\* c (from 1) in the interleaved data.
ReadInt16(blob, i, c) ==
  LET at == 2 * (i * blob.numberOfChannels + (c - 1))
      u == blob.data[at + 1] + 256 * blob.data[at + 2]
  IN  IF u >= 32768 THEN u - 65536 ELSE u

\* The number of samples per channel a WAV blob holds.
ReadLength(blob) == Len(blob.data) \div (2 * blob.numberOfChannels)

\* The int16 rule: clamp to [-1, 1], negative values times 32768, others
\* times 32767, as an integer.
Int16Rule(v) ==
  IF v <= -SampleUnit THEN -32768
  ELSE IF v >= SampleUnit THEN 32767
  ELSE IF v < 0 THEN -(((-v) * 32768) \div SampleUnit)
  ELSE (v * 32767) \div SampleUnit

\* The asset is the exact slice [floor(a*sr), floor(b*sr)) of the source.
ExactSlice(blob, source, a, b) ==
  LET sr == source.sampleRate
      first == SampleAt(a, sr)
      n == SampleAt(b, sr) - first
  IN  /\ blob.numberOfChannels = source.numberOfChannels
      /\ blob.sampleRate = sr
      /\ blob.dataSize = Len(blob.data)
      /\ ReadLength(blob) = n
      /\ \A c \in 1..source.numberOfChannels : \A i \in 0..(n - 1) :
           ReadInt16(blob, i, c) = Int16Rule(source.channels[c][first + i + 1])

\* C12 as stated: for every 0 <= a < b <= D the extraction succeeds and the
\* asset is the exact slice, quantised by the int16 rule.
C12_RoundTripAnyRange ==
  (input \in SliceInputs /\ output # << >>) =>
    /\ output[1].ok
    /\ ExactSlice(output[1].blob, input.source, input.startTime, input.endTime)

\* C12 amended: when floor(b*sr) > floor(a*sr) the extraction succeeds and the
\* asset is the exact slice, quantised by the int16 rule; when a and b fall
\* into the same sample it fails with the invalid-range error.
C12_RoundTripSlicing ==
  (input \in SliceInputs /\ output # << >>) =>
    IF SampleAt(input.endTime, input.source.sampleRate)
         > SampleAt(input.startTime, input.source.sampleRate)
      THEN /\ output[1].ok
           /\ ExactSlice(output[1].blob, input.source, input.startTime, input.endTime)
      ELSE ~output[1].ok

\* C12 witness: a stereo slice of several samples that contains a negative
\* sample and one outside [-1, 1] was extracted.
C12_Witness ==
  /\ input \in SliceInputs /\ output # << >>
  /\ input.source.numberOfChannels = 2
  /\ output[1].ok
  /\ ReadLength(output[1].blob) >= 3
  /\ \E i \in 0..(ReadLength(output[1].blob) - 1) : ReadInt16(output[1].blob, i, 1) = -32768
  /\ \E i \in 0..(ReadLength(output[1].blob) - 1) : ReadInt16(output[1].blob, i, 2) = -16384

\* The interval is the smallest of the ladder that is at least
\* duration / targetLabelCount, with targetLabelCount in 5..15.
SmallestOfLadder(duration, params) ==
  /\ params.targetLabelCount \in 5..15
  /\ \E i \in DOMAIN niceIntervals :
       /\ params.primaryLabelInterval = niceIntervals[i]
       /\ niceIntervals[i] * params.targetLabelCount >= duration
       /\ \A k \in 1..(i - 1) : niceIntervals[k] * params.targetLabelCount < duration

\* C29: for every visible duration calculateTimelineParams picks the
\* smallest interval of the ladder that is at least duration /
\* targetLabelCount, and duration / primaryLabelInterval, the number of
\* primary labels, lies between 5 and 15.
C29_TimelineLabelCount ==
  (output # << >> /\ "duration" \in DOMAIN input) =>
    /\ SmallestOfLadder(input.duration, output[1])
    /\ 5 * output[1].primaryLabelInterval <= input.duration
    /\ input.duration <= 15 * output[1].primaryLabelInterval

\* What holds of every duration: at most 15 primary labels, and the interval
\* is the smallest of the ladder that fits as long as the ladder reaches.
TimelineAtMost15 ==
  (output # << >> /\ "duration" \in DOMAIN input) =>
    /\ input.duration <= 15 * output[1].primaryLabelInterval
    /\ input.duration <= 15 * niceIntervals[Len(niceIntervals)] =>
         SmallestOfLadder(input.duration, output[1])

Clamp(x, lo, hi) == IF x < lo THEN lo ELSE IF x > hi THEN hi ELSE x

\* C26: with startSample = floor(start*sr) and endSample = floor(end*sr)
\* clamped to [0, totalSamples], extractAudioRegion fails with the
\* invalid-range error exactly when endSample <= startSample, and otherwise
\* succeeds with endSample - startSample samples per channel.
C26_InvalidRangeFailure ==
  (input \in RangeInputs /\ output # << >>) =>
    LET sr == input.source.sampleRate
        total == input.source.length
        startSample == Clamp(SampleAt(input.startTime, sr), 0, total)
        endSample == Clamp(SampleAt(input.endTime, sr), 0, total)
    IN  IF endSample <= startSample
          THEN /\ ~output[1].ok
               /\ output[1].error =
                    "Audio extraction failed: Invalid time range for audio extraction"
          ELSE /\ output[1].ok
               /\ output[1].blob.numberOfChannels = input.source.numberOfChannels
               /\ ReadLength(output[1].blob) = endSample - startSample

\* C26 witness: a range with start < end inside one sample of a 3 Hz source
\* failed.
C26_Witness ==
  /\ input \in RangeInputs /\ output # << >>
  /\ input.source.sampleRate = 3
  /\ input.startTime = 750 /\ input.endTime = 1250
  /\ ~output[1].ok

\* C19: each created region gets the next colour of the 8-entry palette
\* whatever its id: consecutive creations get consecutive entries, the entry
\* after the last is the first, and the n-th and (n+8)-th colours coincide.
C19_RoundRobinColors ==
  LET colors == output[1].colors
  IN  /\ Len(colors) = Len(input)
      /\ \A n \in 1..Len(colors) : colors[n] \in 0..(PaletteSize - 1)
      /\ \A n \in 1..(Len(colors) - 1) :
           colors[n + 1] = IF colors[n] = PaletteSize - 1 THEN 0 ELSE colors[n] + 1
      /\ \A n \in 1..(Len(colors) - PaletteSize) :
           colors[n + PaletteSize] = colors[n]

\* C19 witness: nine regions were created, the first and the ninth with
\* different ids and the same colour.
C19_Witness ==
  /\ Len(input) = 9
  /\ input[1] # input[9]
  /\ output[1].colors[1] = output[1].colors[9]

InWindow(predictions, chunk) ==
  { k \in 1..Len(predictions) :
      /\ chunk.actualLeftPadding <= predictions[k]
      /\ predictions[k] <= chunk.actualLeftPadding
                             + (chunk.endTime - chunk.startTime) }

\* C9: padding exclusion.  A prediction at chunk-local time t yields a
\* Selection iff p <= t <= p + (e - s), its beginTime is s + (t - p), and
\* nothing else is produced; for the chunk [10 s, 15 s) with 3 s of padding
\* and predictions at 1.0, 5.0 and 16.5 s the result is one Selection at 12 s.
C9_PaddingExclusion ==
  (input \in [chunk : SelChunks, predictions : SelPredictions] /\ output # << >>) =>
    LET chunk == input.chunk
        predictions == input.predictions
        result == output[1]
        ids == { result[j].id : j \in 1..Len(result) }
    IN  /\ Len(result) = Cardinality(InWindow(predictions, chunk))
        /\ \A k \in 1..Len(predictions) :
             (<< chunk.index, k - 1 >> \in ids) <=> (k \in InWindow(predictions, chunk))
        /\ \A j \in 1..Len(result) :
             LET t == predictions[result[j].id[2] + 1]
             IN  result[j].beginTime
                   = chunk.startTime + (t - chunk.actualLeftPadding)
        /\ ( /\ chunk.startTime = 10000 /\ chunk.endTime = 15000
             /\ chunk.actualLeftPadding = 3000
             /\ predictions = << 1000, 5000, 16500 >> )
           => (Len(result) = 1 /\ result[1].beginTime = 12000)

\* C9 witness: the chunk [10 s, 15 s) with 3 s of padding and predictions at
\* 1.0, 5.0 and 16.5 s was converted.
C9_Witness ==
  /\ output # << >>
  /\ input = [ chunk |-> [ index |-> 2, startTime |-> 10000, endTime |-> 15000,
                           duration |-> 5000, actualLeftPadding |-> 3000,
                           actualRightPadding |-> 3000 ],
               predictions |-> << 1000, 5000, 16500 >> ]
  /\ Len(output[1]) = 1

C34_NoClickTwice ==
  (input \in ClickInputs /\ output # << >>) => Len(output[1]) <= 1

\* The start times in a list are strictly increasing.
StrictlyIncreasing(starts) ==
  \A j \in 1..(Len(starts) - 1) : starts[j] < starts[j + 1]

\* C35: for every totalDuration >= 0, chunkDuration > 0 and overlapDuration
\* >= 0 the partition loop of chunkAudio terminates, and the chunk start
\* times are strictly increasing.
C35_ChunkingTerminates ==
  /\ <>(input \in LoopInputs /\ output[1].done)
  /\ [](input \in LoopInputs => StrictlyIncreasing(output[1].starts))

====
